---- MODULE Spec2Model ----
(***************************************************************************)
(* A model of goreadability (src/readability.go): ExtractFromDocument, the *)
(* description relaxation loop with its three budgeted steps, and the      *)
(* image selector with its probe goroutines.                               *)
(*                                                                         *)
(* The document is a sequence of element records in document order.  A     *)
(* node's parent index is fixed; the mutable part of the tree is the set   *)
(* of detached nodes (s.Remove()) and the tag override (Data = "p").       *)
(* Text is abstracted to its byte length and its number of commas; class   *)
(* and id values come from a small vocabulary on which the regular         *)
(* expressions of newPattern are tabulated.                                *)
(***************************************************************************)
EXTENDS Integers, Sequences, FiniteSets, TLC

(***************************************************************************)
(* Bounds of the model.                                                    *)
(***************************************************************************)
\* Number of top-level blocks under <body> in the documents of Init; the
\* blocks of a document are distinct.
MaxBlocks == 2

\* Number of img elements in the documents of InitImages.
MaxImgs == 2

\* Number of elements in the documents author is called on.
MaxAuthorEls == 3

(***************************************************************************)
(* Program constants.                                                      *)
(***************************************************************************)
DefaultRetryLength == 250
DefaultMinTextLength == 25
DefaultMinImageWidth == 200
DefaultMinImageHeight == 100
DefaultMaxImageCount == 3
DefaultCheckImageLoopCount == 10

(***************************************************************************)
(* Strings are sequences of one-character strings.                         *)
(***************************************************************************)
HasPrefix(s, p) == Len(p) <= Len(s) /\ SubSeq(s, 1, Len(p)) = p

\* strings.Contains(s, sub)
Contains(s, sub) ==
    \E i \in 1..(Len(s) - Len(sub) + 1) : SubSeq(s, i, i + Len(sub) - 1) = sub

\* strings.Index(s, c) and strings.LastIndex(s, c) for a one-character c:
\* the 0-based position, -1 when c is not in s.
Index(s, c) ==
    IF \E i \in 1..Len(s) : s[i] = c
    THEN (CHOOSE i \in 1..Len(s) : s[i] = c /\ \A j \in 1..(i - 1) : s[j] # c) - 1
    ELSE -1

LastIndex(s, c) ==
    IF \E i \in 1..Len(s) : s[i] = c
    THEN (CHOOSE i \in 1..Len(s) : s[i] = c /\ \A j \in (i + 1)..Len(s) : s[j] # c) - 1
    ELSE -1

\* strings.TrimSpace(s)
TrimSpace(s) ==
    LET ns == { i \in 1..Len(s) : s[i] # " " }
    IN  IF ns = {} THEN << >>
        ELSE SubSeq(s, CHOOSE i \in ns : \A j \in ns : i <= j,
                       CHOOSE i \in ns : \A j \in ns : j <= i)

\* strings.TrimSpace(s) == ""
IsBlank(s) == \A i \in 1..Len(s) : s[i] = " "

Letters == {"a", "b", "c", "d", "e", "f", "g", "h", "i", "j", "k", "l", "m",
            "n", "o", "p", "q", "r", "s", "t", "u", "v", "w", "x", "y", "z"}

Digits == {"0", "1", "2", "3", "4", "5", "6", "7", "8", "9"}

HexDigits == Digits \cup {"a", "b", "c", "d", "e", "f"}

(***************************************************************************)
(* net/url, as far as absPath uses it.                                     *)
(***************************************************************************)
\* getScheme: the length of the scheme (0: none), or -1 for the error
\* "missing protocol scheme".
RECURSIVE getScheme(_, _)
getScheme(s, i) ==
    IF i > Len(s) THEN 0
    ELSE IF s[i] \in Letters THEN getScheme(s, i + 1)
    ELSE IF s[i] \in Digits \cup {"+", "-", "."}
         THEN (IF i = 1 THEN 0 ELSE getScheme(s, i + 1))
    ELSE IF s[i] = ":" THEN (IF i = 1 THEN -1 ELSE i - 1)
    ELSE 0

\* A "%" that does not start a two-digit escape.
BadEscape(s) ==
    \E i \in 1..Len(s) :
        /\ s[i] = "%"
        /\ ~(i + 2 <= Len(s) /\ s[i + 1] \in HexDigits /\ s[i + 2] \in HexDigits)

\* url.Parse(s) for a string without "#", "@" and characters no host may
\* have: [err, Scheme, Host, Path].  The scheme is split off first, then the
\* query at the first "?"; a string with a scheme and no leading "/" is
\* opaque and not looked at further; without a scheme the first path segment
\* must not contain a colon; "//" starts the authority; host and path must
\* not have a bad escape.
urlParse(s) ==
    LET n == getScheme(s, 1)
        afterScheme == IF n > 0 THEN SubSeq(s, n + 2, Len(s)) ELSE s
        q == Index(afterScheme, "?")
        rest == IF q >= 0 THEN SubSeq(afterScheme, 1, q) ELSE afterScheme
        opaque == n > 0 /\ ~HasPrefix(rest, << "/" >>)
        colon == Index(rest, ":")
        slash == Index(rest, "/")
        hasAuth == /\ HasPrefix(rest, << "/", "/" >>)
                   /\ (n > 0 \/ ~HasPrefix(rest, << "/", "/", "/" >>))
        auth == IF hasAuth THEN SubSeq(rest, 3, Len(rest)) ELSE << >>
        hostEnd == IF Index(auth, "/") < 0 THEN Len(auth) ELSE Index(auth, "/")
        failed == [err |-> TRUE, Scheme |-> << >>, Host |-> << >>, Path |-> << >>]
    IN  IF n = -1 THEN failed
        ELSE IF opaque
        THEN [err |-> FALSE, Scheme |-> SubSeq(s, 1, n), Host |-> << >>, Path |-> << >>]
        ELSE IF n = 0 /\ ~HasPrefix(rest, << "/" >>) /\ colon >= 0 /\ (slash < 0 \/ colon < slash)
        THEN failed
        ELSE IF BadEscape(rest) THEN failed
        ELSE [err |-> FALSE, Scheme |-> SubSeq(s, 1, n),
              Host |-> SubSeq(auth, 1, hostEnd),
              Path |-> IF hasAuth THEN SubSeq(auth, hostEnd + 1, Len(auth)) ELSE rest]

HTTP == << "h", "t", "t", "p" >>

HTTPS == << "h", "t", "t", "p", "s" >>

isValidURLStr(s) ==
    LET u == urlParse(s)
    IN  ~u.err /\ (u.Scheme = HTTP \/ u.Scheme = HTTPS)

Fail == [err |-> TRUE, out |-> << >>]

Ok(out) == [err |-> FALSE, out |-> out]

\* Mutant of absPath: the request URL is checked before the input is
\* looked at.
absPathRequestFirst(in, reqURLStr) ==
    LET inURL == urlParse(in)
        reqURL == urlParse(reqURLStr)
        sPos == LastIndex(reqURLStr, "/")
        result == IF sPos < 8 THEN reqURLStr \o << "/" >> \o in
                  ELSE SubSeq(reqURLStr, 1, sPos + 1) \o in
    IN  IF IsBlank(in) THEN Fail
        ELSE IF inURL.err THEN Fail
        ELSE IF reqURL.err THEN Fail
        ELSE IF ~isValidURLStr(reqURLStr) THEN Fail
        ELSE IF inURL.Scheme # << >> THEN Ok(in)
        ELSE IF HasPrefix(in, << "/", "/" >>) THEN Ok(reqURL.Scheme \o << ":" >> \o in)
        ELSE IF HasPrefix(in, << "/" >>)
             THEN Ok(reqURL.Scheme \o << ":", "/", "/" >> \o reqURL.Host \o in)
        ELSE IF urlParse(result).err THEN Fail
        ELSE Ok(result)

\* Mutant of absPath: the scheme of the request URL is not checked.
absPathAnyScheme(in, reqURLStr) ==
    LET inURL == urlParse(in)
        reqURL == urlParse(reqURLStr)
        sPos == LastIndex(reqURLStr, "/")
        result == IF sPos < 8 THEN reqURLStr \o << "/" >> \o in
                  ELSE SubSeq(reqURLStr, 1, sPos + 1) \o in
    IN  IF IsBlank(in) THEN Fail
        ELSE IF inURL.err THEN Fail
        ELSE IF inURL.Scheme # << >> THEN Ok(in)
        ELSE IF reqURL.err THEN Fail
        ELSE IF HasPrefix(in, << "/", "/" >>) THEN Ok(reqURL.Scheme \o << ":" >> \o in)
        ELSE IF HasPrefix(in, << "/" >>)
             THEN Ok(reqURL.Scheme \o << ":", "/", "/" >> \o reqURL.Host \o in)
        ELSE IF urlParse(result).err THEN Fail
        ELSE Ok(result)

\* absPath(in, reqURLStr): [err, out].
absPath(in, reqURLStr) ==
    LET inURL == urlParse(in)
        reqURL == urlParse(reqURLStr)
        sPos == LastIndex(reqURLStr, "/")
        result == IF sPos < 8 THEN reqURLStr \o << "/" >> \o in
                  ELSE SubSeq(reqURLStr, 1, sPos + 1) \o in
    IN  IF IsBlank(in) THEN Fail
        ELSE IF inURL.err THEN Fail
        ELSE IF inURL.Scheme # << >> THEN Ok(in)
        ELSE IF reqURL.err THEN Fail
        ELSE IF ~isValidURLStr(reqURLStr) THEN Fail
        ELSE IF HasPrefix(in, << "/", "/" >>) THEN Ok(reqURL.Scheme \o << ":" >> \o in)
        ELSE IF HasPrefix(in, << "/" >>)
             THEN Ok(reqURL.Scheme \o << ":", "/", "/" >> \o reqURL.Host \o in)
        ELSE IF urlParse(result).err THEN Fail
        ELSE Ok(result)

\* NewOption: IgnoreImageFormat
IgnoreImageFormat == { << "d", "a", "t", "a", ":", "i", "m", "a", "g", "e", "/" >>, << ".", "s", "v", "g" >>, << ".", "w", "e", "b", "p" >> }

isSupportedImage(src, opt) == \A ext \in opt.IgnoreImageFormat : ~Contains(src, ext)

\* The src values of the img elements and the request URLs of the model.
SrcAbs == << "h", "t", "t", "p", ":", "/", "/", "a", "/", "i", ".", "p", "n", "g" >>

SrcRel == << "i", ".", "p", "n", "g" >>

SrcSvg == << "h", "t", "t", "p", ":", "/", "/", "a", "/", "i", ".", "s", "v", "g" >>

SrcNone == << >>

ReqURL == << "h", "t", "t", "p", ":", "/", "/", "a", "/", "x", "/", "y" >>

ReqFTP == << "f", "t", "p", ":", "/", "/", "a", "/", "x" >>

\* A Go int (64 bits in the build) as q * 65536 + r with 0 <= r < 65536, so
\* that values beyond 32 bits can be written and uint32() keeps its width.
GoInt(x) == [q |-> x \div 65536, r |-> x % 65536]

Wide(q, r) == [q |-> q, r |-> r]

IsZero(g) == g.q = 0 /\ g.r = 0

\* a >= b for two Go ints
GeInt(a, b) == a.q > b.q \/ (a.q = b.q /\ a.r >= b.r)

\* A width or height attribute: absent, present but not an integer (as
\* "300px"), or the decimal text of an integer.
AttrAbsent == [kind |-> "absent", val |-> GoInt(0)]

AttrText == [kind |-> "text", val |-> GoInt(0)]

AttrInt(g) == [kind |-> "int", val |-> g]

\* strconv.Atoi(s.AttrOr(name, "0")) with its error dropped: 0 for an absent
\* attribute and for one that is not an integer.
Atoi(a) == IF a.kind = "int" THEN a.val ELSE GoInt(0)

(***************************************************************************)
(* Documents.                                                              *)
(***************************************************************************)
El(tag, parent, class, text, commas) ==
    [tag |-> tag, parent |-> parent, class |-> class, id |-> "",
     text |-> text, commas |-> commas, dot |-> FALSE,
     src |-> << >>, w |-> AttrAbsent, h |-> AttrAbsent]

Img(parent, src, w, h) ==
    [tag |-> "img", parent |-> parent, class |-> "", id |-> "",
     text |-> 0, commas |-> 0, dot |-> FALSE,
     src |-> src, w |-> w, h |-> h]

\* A block is a subtree hung under <body>; parent 0 stands for <body>,
\* parent k > 0 for the k-th node of the block.
BlockNames == {"article", "short", "sidebar", "misused"}

Block(b) ==
    CASE b = "article" -> << El("div", 0, "article-body", 0, 0),
                             El("p", 1, "", 300, 3) >>
      [] b = "short"   -> << El("div", 0, "", 0, 0),
                             El("p", 1, "", 40, 0) >>
      [] b = "sidebar" -> << El("div", 0, "sidebar", 0, 0),
                             El("p", 1, "", 260, 1),
                             Img(1, SrcAbs, AttrAbsent, AttrAbsent) >>
      [] b = "misused" -> << El("script", 0, "", 50, 0),
                             El("div", 0, "", 30, 0),
                             Img(0, SrcNone, AttrAbsent, AttrAbsent) >>
      [] b = "second"  -> << El("div", 0, "article-body", 0, 0),
                             El("p", 1, "", 260, 3) >>
      [] b = "longp"   -> << El("p", 0, "", 100, 0) >>
      [] b = "linkp"   -> << El("p", 0, "", 60, 0), El("a", 1, "", 40, 0) >>
      [] b = "dotp"    -> << [El("p", 0, "", 20, 0) EXCEPT !.dot = TRUE] >>
      [] b = "plainp"  -> << El("p", 0, "", 20, 0) >>
      [] b = "dotdiv"  -> << [El("div", 0, "", 20, 0) EXCEPT !.dot = TRUE] >>
      [] b = "dotul"   -> << [El("ul", 0, "", 20, 0) EXCEPT !.dot = TRUE] >>

Shift(nodes, off) ==
    [k \in 1..Len(nodes) |->
        [nodes[k] EXCEPT !.parent = IF nodes[k].parent = 0 THEN 2
                                    ELSE off + nodes[k].parent]]

RECURSIVE BuildFrom(_, _)
BuildFrom(bs, acc) ==
    IF bs = << >> THEN acc
    ELSE BuildFrom(Tail(bs), acc \o Shift(Block(Head(bs)), Len(acc)))

\* <html><body> blocks </body></html>
BuildDoc(bs) ==
    BuildFrom(bs, << El("html", 0, "", 0, 0), El("body", 1, "", 0, 0) >>)

RECURSIVE BlockSeqs(_)
BlockSeqs(n) ==
    IF n = 0 THEN { << >> }
    ELSE LET shorter == BlockSeqs(n - 1)
             longest == { t \in shorter : Len(t) = n - 1 }
         IN  shorter \cup UNION { { Append(t, b) :
                                      b \in { c \in BlockNames :
                                               \A k \in 1..Len(t) : t[k] # c } } :
                                  t \in longest }

Docs == { BuildDoc(bs) : bs \in BlockSeqs(MaxBlocks) }

\* The img elements of the image documents: one without width and height,
\* one with a width only, one with both and a relative src, one in an
\* ignored format.  A document has each of them at most once.
ImgKinds ==
    { Img(0, SrcAbs, AttrAbsent, AttrAbsent),
      Img(0, SrcAbs, AttrInt(GoInt(300)), AttrAbsent),
      Img(0, SrcRel, AttrInt(GoInt(300)), AttrInt(GoInt(300))),
      Img(0, SrcSvg, AttrAbsent, AttrAbsent) }

RECURSIVE ImgSeqs(_)
ImgSeqs(n) ==
    IF n = 0 THEN { << >> }
    ELSE LET shorter == ImgSeqs(n - 1)
         IN  shorter \cup UNION { { Append(t, i) : i \in ImgKinds \ { t[k] : k \in 1..Len(t) } } :
                                     t \in { u \in shorter : Len(u) = n - 1 } }

\* <html><body> imgs </body></html>
ImgDocs ==
    { << El("html", 0, "", 0, 0), El("body", 1, "", 0, 0) >> \o Shift(is, 2) :
      is \in ImgSeqs(MaxImgs) }

(***************************************************************************)
(* newPattern: the regular expressions, tabulated on the class/id          *)
(* vocabulary and the tag vocabulary of the documents above.               *)
(***************************************************************************)
\* The vocabulary: "", "article-body", "sidebar", "post-meta", "nav".
\* patterns.UnlikelyCandidates ("...|sidebar|...")
UnlikelyCandidates(str) == str \in {"sidebar"}

\* patterns.OKMaybeItsACandidate ("and|article|body|column|main|shadow")
OKMaybeItsACandidate(str) == str \in {"article-body"}

\* patterns.Positive ("article|body|content|...")
Positive(str) == str \in {"article-body", "post-meta"}

\* patterns.Negative ("...|sidebar|...")
Negative(str) == str \in {"sidebar", "post-meta"}

\* patterns.DivToPElements: "<(a|blockquote|dl|div|img|ol|p|pre|table|ul)"
\* matches the opening tag of every element whose name starts with one of
\* these words.
DivToPElements(tag) ==
    tag \in {"a", "blockquote", "dl", "div", "img", "ol", "p", "pre", "table", "ul"}

(***************************************************************************)
(* The tree.  D is [n: the nodes, det: the detached nodes, tag: the        *)
(* current tag of each node].                                              *)
(***************************************************************************)
Tree(n, det, tag) == [n |-> n, det |-> det, tag |-> tag]

OrigTags(n) == [i \in 1..Len(n) |-> n[i].tag]

RECURSIVE SortedSeq(_)
SortedSeq(S) ==
    IF S = {} THEN << >>
    ELSE LET m == CHOOSE x \in S : \A y \in S : x <= y
         IN  << m >> \o SortedSeq(S \ {m})

\* s.Children(): the element children still attached to i.
Kids(D, i) == { j \in 1..Len(D.n) : D.n[j].parent = i /\ j \notin D.det }

\* i and the elements of its subtree.
RECURSIVE Sub(_, _)
Sub(D, i) == {i} \cup UNION { Sub(D, j) : j \in Kids(D, i) }

\* s.Find(tags): the descendants of root with one of the tags, in document
\* order.
Find(D, root, tags) ==
    SortedSeq({ j \in Sub(D, root) \ {root} : D.tag[j] \in tags })

FindAll(D, root) == SortedSeq(Sub(D, root) \ {root})

RECURSIVE SumOver(_, _)
SumOver(f, S) ==
    IF S = {} THEN 0
    ELSE LET x == CHOOSE y \in S : TRUE
         IN  f[x] + SumOver(f, S \ {x})

\* len(s.Text())
TextLen(D, i) == SumOver([j \in 1..Len(D.n) |-> D.n[j].text], Sub(D, i))

\* strings.Count(s.Text(), ",")
Commas(D, i) == SumOver([j \in 1..Len(D.n) |-> D.n[j].commas], Sub(D, i))

\* s.Html(): the inner markup of i, as a value that is equal for two nodes
\* exactly when their own text and their children's markup are equal.
RECURSIVE HTML(_, _)
HTML(D, i) ==
    LET ks == SortedSeq(Kids(D, i))
    IN  << D.n[i].text, D.n[i].commas,
           [k \in 1..Len(ks) |->
               << D.tag[ks[k]], D.n[ks[k]].class, D.n[ks[k]].id,
                  D.n[ks[k]].src, D.n[ks[k]].w, D.n[ks[k]].h,
                  HTML(D, ks[k]) >>] >>

(***************************************************************************)
(* Density evaluator.  A float64 is [nan, num, den] with den > 0.          *)
(***************************************************************************)
RECURSIVE GCD(_, _)
GCD(a, b) == IF b = 0 THEN a ELSE GCD(b, a % b)

Abs(x) == IF x < 0 THEN 0 - x ELSE x

\* num/den in lowest terms, which keeps the products of the comparisons
\* below inside the integers of the checker.
Rat(num, den) ==
    LET g == GCD(Abs(num), den)
    IN  [nan |-> FALSE, num |-> num \div g, den |-> den \div g]

NaN == [nan |-> TRUE, num |-> 0, den |-> 1]

\* a < b, a >= b on float64: every comparison with NaN is false.
Lt(a, b) == ~a.nan /\ ~b.nan /\ a.num * b.den < b.num * a.den

Ge(a, b) == ~a.nan /\ ~b.nan /\ a.num * b.den >= b.num * a.den

Gt(a, b) == Lt(b, a)

\* Mutant of classWeight: the id is looked at only when the class gave
\* nothing.
classWeightFirstMatch(D, i, opt) ==
    LET c == (IF D.n[i].class # "" /\ Negative(D.n[i].class) THEN -25 ELSE 0)
             + (IF D.n[i].class # "" /\ Positive(D.n[i].class) THEN 25 ELSE 0)
        d == (IF D.n[i].id # "" /\ Negative(D.n[i].id) THEN -25 ELSE 0)
             + (IF D.n[i].id # "" /\ Positive(D.n[i].id) THEN 25 ELSE 0)
    IN  IF ~opt.WeightClasses THEN 0
        ELSE IF c # 0 THEN c ELSE d

classWeight(D, i, opt) ==
    IF ~opt.WeightClasses THEN 0
    ELSE (IF D.n[i].class # "" /\ Negative(D.n[i].class) THEN -25 ELSE 0)
       + (IF D.n[i].class # "" /\ Positive(D.n[i].class) THEN 25 ELSE 0)
       + (IF D.n[i].id # "" /\ Negative(D.n[i].id) THEN -25 ELSE 0)
       + (IF D.n[i].id # "" /\ Positive(D.n[i].id) THEN 25 ELSE 0)

elemScores(tag) ==
    CASE tag = "div" -> 5
      [] tag = "blockquote" -> 3
      [] tag = "form" -> -3
      [] tag = "th" -> -5
      [] OTHER -> 0

scoreNode(D, i, opt) == classWeight(D, i, opt) + elemScores(D.tag[i])

\* linkLen / textLen; 0/0 is NaN.
linkDensity(D, i) ==
    LET as == Find(D, i, {"a"})
        linkLen == SumOver([k \in 1..Len(as) |-> TextLen(D, as[k])], 1..Len(as))
        textLen == TextLen(D, i)
    IN  IF textLen = 0 THEN NaN ELSE Rat(linkLen, textLen)

(***************************************************************************)
(* Pruning pipeline.                                                       *)
(***************************************************************************)
\* doc.Find("style, script").Each(Remove)
removeStyleScript(D) ==
    Tree(D.n, D.det \cup { i \in Sub(D, 1) : D.tag[i] \in {"style", "script"} }, D.tag)

\* The test of the Each body of removeUnlikelyCandidates on s.
Unlikely(D, s) ==
    LET str == D.n[s].class \o D.n[s].id
    IN  /\ UnlikelyCandidates(str)
        /\ ~OKMaybeItsACandidate(str)
        /\ D.tag[s] # "html"
        /\ D.tag[s] # "body"

\* The test of the Each body of transformMisusedDivsIntoP on s.
Misused(D, s) ==
    /\ D.tag[s] = "div"
    /\ \A j \in Sub(D, s) \ {s} : ~DivToPElements(D.tag[j])

\* One round of the EachWithBreak of a pruning step on s: s.Remove(), or
\* s.Get(0).Data = "p".
Round(kind, D, s) ==
    IF kind = "removeUnlikelyCandidates" /\ Unlikely(D, s)
    THEN Tree(D.n, D.det \cup {s}, D.tag)
    ELSE IF kind = "transformMisusedDivsIntoP" /\ Misused(D, s)
    THEN Tree(D.n, D.det, [D.tag EXCEPT ![s] = "p"])
    ELSE D

\* The rounds i, i+1, ... of a pruning step over sel, run to the end.
RECURSIVE Rounds(_, _, _, _)
Rounds(kind, D, sel, i) ==
    IF i > Len(sel) THEN D
    ELSE Rounds(kind, Round(kind, D, sel[i]), sel, i + 1)

\* prepareCandidates up to getCandidates, with no step timing out: the
\* document getCandidates is run on.
prepared(D, opt) ==
    LET d1 == removeStyleScript(D)
        d2 == IF opt.RemoveUnlikelyCandidates
              THEN Rounds("removeUnlikelyCandidates", d1, FindAll(d1, 0), 1)
              ELSE d1
    IN  Rounds("transformMisusedDivsIntoP", d2, FindAll(d2, 0), 1)

(***************************************************************************)
(* Candidate scorer.  The candidate map is a sequence of entries           *)
(* [key, node, s200, Score] in insertion order; s200 is the score before   *)
(* the link-density rescaling, in units of 1/200.                          *)
(***************************************************************************)
HasKey(cMap, key) == \E k \in 1..Len(cMap) : cMap[k].key = key

\* candidates.Map[key].Score; the zero value for a missing key.
MapScore(cMap, key) ==
    IF HasKey(cMap, key)
    THEN (cMap[CHOOSE k \in 1..Len(cMap) : cMap[k].key = key]).Score
    ELSE Rat(0, 1)

Entry(D, opt, node, inc200) ==
    [key |-> HTML(D, node), node |-> node,
     s200 |-> 200 * scoreNode(D, node, opt) + inc200, Score |-> NaN]

\* Mutant of scoreLoop: a key that is in the map already is written again.
RECURSIVE scoreLoopLastWriter(_, _, _, _, _)
scoreLoopLastWriter(D, opt, sel, k, cMap) ==
    IF k > Len(sel) THEN cMap
    ELSE LET s == sel[k]
             parent == D.n[s].parent
             grandParent == D.n[parent].parent
             len == TextLen(D, s)
             score200 == 200 * (1 + (Commas(D, s) + 1))
                         + (IF 2 * len < 600 THEN 2 * len ELSE 600)
             Put(m, e) == IF HasKey(m, e.key)
                          THEN [j \in 1..Len(m) |-> IF m[j].key = e.key THEN e ELSE m[j]]
                          ELSE Append(m, e)
             withP == Put(cMap, Entry(D, opt, parent, score200))
             withG == IF grandParent = 0 THEN withP
                      ELSE Put(withP, Entry(D, opt, grandParent, score200 \div 2))
         IN  IF len < opt.MinTextLength
             THEN scoreLoopLastWriter(D, opt, sel, k + 1, cMap)
             ELSE scoreLoopLastWriter(D, opt, sel, k + 1, withG)

\* The EachWithBreak body of getCandidates over sel = doc.Find("p, td").
RECURSIVE scoreLoop(_, _, _, _, _)
scoreLoop(D, opt, sel, k, cMap) ==
    IF k > Len(sel) THEN cMap
    ELSE LET s == sel[k]
             parent == D.n[s].parent
             grandParent == D.n[parent].parent
             len == TextLen(D, s)
             score200 == 200 * (1 + (Commas(D, s) + 1))
                         + (IF 2 * len < 600 THEN 2 * len ELSE 600)
             withP == IF HasKey(cMap, HTML(D, parent)) THEN cMap
                      ELSE Append(cMap, Entry(D, opt, parent, score200))
             withG == IF grandParent = 0 \/ HasKey(withP, HTML(D, grandParent))
                      THEN withP
                      ELSE Append(withP, Entry(D, opt, grandParent, score200 \div 2))
         IN  IF len < opt.MinTextLength
             THEN scoreLoop(D, opt, sel, k + 1, cMap)
             ELSE scoreLoop(D, opt, sel, k + 1, withG)

\* v.Score * (1 - linkDensity(v.Node))
Rescale(D, e) ==
    LET ld == linkDensity(D, e.node)
    IN  [e EXCEPT !.Score = IF ld.nan THEN NaN
                            ELSE Rat(e.s200 * (ld.den - ld.num), 200 * ld.den)]

\* The worker of getCandidates: the candidate map of the document as it is.
getCandidates(D, opt) ==
    LET cMap == scoreLoop(D, opt, Find(D, 1, {"p", "td"}), 1, << >>)
    IN  [k \in 1..Len(cMap) |-> Rescale(D, cMap[k])]

\* sortCandidates: the entries that may come out as List[0].  sort.Sort is
\* not stable and the map is iterated in random order, so any entry of
\* maximal score may be first; a NaN score compares false with everything
\* and leaves the order undetermined.
sortCandidates(cMap) ==
    IF \E k \in 1..Len(cMap) : cMap[k].Score.nan
    THEN { cMap[k] : k \in 1..Len(cMap) }
    ELSE { cMap[k] : k \in { i \in 1..Len(cMap) :
                 \A j \in 1..Len(cMap) : ~Gt(cMap[j].Score, cMap[i].Score) } }

(***************************************************************************)
(* Article assembler.                                                      *)
(***************************************************************************)
\* math.Max(10.0, bestCandidate.Score*0.2)
siblingScoreThreshold(best) ==
    IF best.Score.nan THEN NaN
    ELSE IF Ge(Rat(10, 1), Rat(best.Score.num, 5 * best.Score.den))
         THEN Rat(10, 1)
         ELSE Rat(best.Score.num, 5 * best.Score.den)

TextHasDot(D, i) == \E j \in Sub(D, i) : D.n[j].dot

\* Mutant of getArticle: the test of a short text with a period is made on
\* every sibling.
getArticleAnyTag(D, cMap, best) ==
    LET par == D.n[best.node].parent
        sibs == IF par = 0 THEN << >> ELSE SortedSeq(Kids(D, par))
        append(s) ==
            \/ HTML(D, s) = HTML(D, best.node)
            \/ Ge(MapScore(cMap, HTML(D, s)), siblingScoreThreshold(best))
            \/ LET ld == linkDensity(D, s)
                   length == TextLen(D, s)
               IN  \/ D.tag[s] = "p" /\ length > 80 /\ Lt(ld, Rat(1, 4))
                   \/ length < 80 /\ ~ld.nan /\ ld.num = 0 /\ TextHasDot(D, s)
    IN  SelectSeq(sibs, append)

\* The children of the best candidate's parent that are copied into the
\* output, in document order.
getArticle(D, cMap, best) ==
    LET par == D.n[best.node].parent
        sibs == IF par = 0 THEN << >> ELSE SortedSeq(Kids(D, par))
        append(s) ==
            \/ HTML(D, s) = HTML(D, best.node)
            \/ Ge(MapScore(cMap, HTML(D, s)), siblingScoreThreshold(best))
            \/ /\ D.tag[s] = "p"
               /\ LET ld == linkDensity(D, s)
                      length == TextLen(D, s)
                  IN  \/ length > 80 /\ Lt(ld, Rat(1, 4))
                      \/ /\ ~(length > 80 /\ Lt(ld, Rat(1, 4)))
                         /\ length < 80 /\ ~ld.nan /\ ld.num = 0
                         /\ TextHasDot(D, s)
    IN  SelectSeq(sibs, append)

(***************************************************************************)
(* Sanitizer.  The output document is the copies of the appended nodes;    *)
(* it is the tree D restricted to their subtrees, with its own set of      *)
(* removed nodes.                                                          *)
(***************************************************************************)
Copy(D, removed) == Tree(D.n, D.det \cup removed, D.tag)

\* s.Clone() of the appended nodes: a copy that is neither div nor p is
\* retagged div.
Output(D, roots) ==
    Tree(D.n, D.det,
         [i \in 1..Len(D.n) |->
             IF (\E k \in 1..Len(roots) : roots[k] = i) /\ D.tag[i] \notin {"div", "p"}
             THEN "div" ELSE D.tag[i]])

\* The nodes of the output document that are still in it.
Live(D, roots, removed) ==
    UNION { Sub(Copy(D, removed), roots[k]) :
            k \in { i \in 1..Len(roots) : roots[i] \notin removed } }

Count(D, i, tag) == Len(Find(D, i, {tag}))

\* s.Find("noscript").Find("img").Length()
NoscriptImgs(D, i) ==
    Cardinality(UNION { { x \in Sub(D, j) : D.tag[x] = "img" } :
                        j \in { y \in Sub(D, i) \ {i} : D.tag[y] = "noscript" } })

conditionalCleanReason(tagName, counts, cl, opt, weight, ld) ==
    IF counts.img > counts.p /\ counts.img > 1 THEN "too many images"
    ELSE IF counts.li > counts.p /\ tagName # "ul" /\ tagName # "ok"
         THEN "more <li>s than <p>s"
    ELSE IF counts.input * 3 > counts.p THEN "<p>s less than 3 * <inputs>s"
    ELSE IF cl < opt.MinTextLength /\ counts.img # 1
         THEN "too short content length without a single image"
    ELSE IF (weight < 25 /\ Gt(ld, Rat(1, 5))) \/ (weight >= 25 /\ Gt(ld, Rat(1, 2)))
         THEN "too many links for its weight"
    ELSE IF (counts.embed = 1 /\ cl < 75) \/ counts.embed > 1
         THEN "<embed>s with too short content length, or too many <embed>s"
    ELSE ""

\* The counts map as it stands in the k-th round of the loop over
\* p, img, li, a, embed, input: a tag not yet reached counts 0, li loses 100
\* and img loses the noscript imgs in every round.
CountsAt(D, i, k) ==
    [p     |-> Count(D, i, "p"),
     img   |-> (IF k >= 2 THEN Count(D, i, "img") - (k - 1) * NoscriptImgs(D, i)
                ELSE 0 - NoscriptImgs(D, i)),
     li    |-> (IF k >= 3 THEN Count(D, i, "li") - (k - 2) * 100 ELSE 0 - k * 100),
     a     |-> (IF k >= 4 THEN Count(D, i, "a") ELSE 0),
     embed |-> (IF k >= 5 THEN Count(D, i, "embed") ELSE 0),
     input |-> (IF k >= 6 THEN Count(D, i, "input") ELSE 0)]

\* Mutant of cleanRemoves: the commas of the text are not counted.
cleanRemovesWithCommas(D, i, cMap, opt) ==
    LET weight == classWeight(D, i, opt)
        score == MapScore(cMap, HTML(D, i))
    IN  IF Lt(Rat(score.num + weight * score.den, score.den), Rat(0, 1)) /\ ~score.nan
        THEN TRUE
        ELSE \E k \in 1..6 :
                 conditionalCleanReason(D.tag[i], CountsAt(D, i, k), TextLen(D, i),
                                        opt, weight, linkDensity(D, i)) # ""

\* Whether the Each body of cleanConditionally removes i.
cleanRemoves(D, i, cMap, opt) ==
    LET weight == classWeight(D, i, opt)
        score == MapScore(cMap, HTML(D, i))
    IN  IF Lt(Rat(score.num + weight * score.den, score.den), Rat(0, 1)) /\ ~score.nan
        THEN TRUE
        ELSE /\ Commas(D, i) < 11
             /\ \E k \in 1..6 :
                    conditionalCleanReason(D.tag[i], CountsAt(D, i, k), TextLen(D, i),
                                           opt, weight, linkDensity(D, i)) # ""

cleanConditionally(D, roots, removed, cMap, opt) ==
    IF ~opt.CleanConditionally THEN removed
    ELSE removed \cup
         { i \in Live(D, roots, removed) :
             /\ D.tag[i] \in {"table", "ul", "div"}
             /\ cleanRemoves(Copy(D, removed), i, cMap, opt) }

\* The nodes sanitize removes from the output document.
sanitizeRemoved(D, roots, cMap, opt) ==
    LET r1 == { i \in Live(D, roots, {}) :
                  /\ D.tag[i] \in {"h1", "h2", "h3", "h4", "h5", "h6"}
                  /\ \/ classWeight(D, i, opt) < 0
                     \/ Gt(linkDensity(D, i), Rat(33, 100)) }
        r2 == r1 \cup { i \in Live(D, roots, r1) :
                  D.tag[i] \in {"form", "object", "iframe", "embed"} }
        r3 == IF opt.RemoveEmptyNodes
              THEN r2 \cup { i \in Live(D, roots, r2) :
                       D.tag[i] = "p" /\ TextLen(Copy(D, r2), i) = 0 }
              ELSE r2
    IN  cleanConditionally(D, roots, r3, cMap, opt)

\* Whether i is rendered as an element: div and p are, and a node under an
\* element that is replaced by its text is text too.
RECURSIVE Whitelisted(_, _, _)
Whitelisted(D, roots, i) ==
    /\ D.tag[i] \in {"div", "p"}
    /\ \/ \E k \in 1..Len(roots) : roots[k] = i
       \/ Whitelisted(D, roots, D.n[i].parent)

\* len("<p></p>"), len("<div></div>")
TagLen(D, i) == IF D.tag[i] = "p" THEN 7 ELSE 11

\* len(cleanedArticle): the length of the rendered output document, after
\* the tags are replaced by spaces and the space runs collapsed when
\* DescriptionAsPlainText is set.
cleanedLen(D, roots, removed, opt) ==
    LET live == Live(D, roots, removed)
        text == SumOver([j \in 1..Len(D.n) |-> D.n[j].text], live)
        els == { i \in live : Whitelisted(D, roots, i) }
    IN  IF live = {} THEN 0
        ELSE IF opt.DescriptionAsPlainText
             THEN 1 + text + Cardinality({ i \in els : D.n[i].text > 0 })
             ELSE text + SumOver([j \in 1..Len(D.n) |-> TagLen(D, j)], els)

\* sanitize(article, candidates, opt) and the plain-text step of description,
\* on the copies getArticle made: the length of cleanedArticle.
sanitize(D, roots, cMap, opt) ==
    LET out == Output(D, roots)
    IN  cleanedLen(out, roots, sanitizeRemoved(out, roots, cMap, opt), opt)

\* One description pass run alone on the document D with no step timing
\* out: the lengths of cleanedArticle it may produce (none without
\* candidates, several when candidates tie for the best score).
descriptionAlone(D, opt) ==
    LET P == prepared(D, opt)
        cMap == getCandidates(P, opt)
    IN  { sanitize(P, getArticle(P, cMap, best), cMap, opt) : best \in sortCandidates(cMap) }

(***************************************************************************)
(* State.                                                                  *)
(***************************************************************************)
VARIABLES
    nodes,      \* the document the caller passed, as parsed
    det,        \* the nodes removed from their parent so far
    tag,        \* the current tag of each node
    opt0,       \* the options the caller passed
    opt,        \* the options of the running description call
    pc,         \* where the calling goroutine is
    worker,     \* the goroutine of the budgeted step last started
    cands,      \* the candidate map the getCandidates worker built
    passes,     \* one record per description call, in call order
    desc,       \* what description returned
    reqURL,     \* the request URL the caller passed
    imgSel,     \* images: the img elements doc.Find("img") selected
    wi,         \* images: the position of the walk in imgSel
    loopCnt,    \* images: the counter shared with the probe goroutines
    gor,        \* images: the goroutine started for each img of imgSel
    imgs,       \* images: the images accepted so far
    ret,        \* what ExtractFromDocument returned
    call        \* a call of one function on its own: its arguments and result

descVars == << cands, passes, desc >>

imgVars == << imgSel, wi, loopCnt, gor, imgs >>

vars == << nodes, det, tag, opt0, opt, pc, worker, cands, passes, desc,
           reqURL, imgSel, wi, loopCnt, gor, imgs, ret, call >>

Doc == Tree(nodes, det, tag)

NoWorker == [kind |-> "none", sel |-> << >>, i |-> 1, quit |-> FALSE, st |-> "exit",
             det0 |-> {}, tag0 |-> << >>]

Options == { [RetryLength |-> DefaultRetryLength,
              MinTextLength |-> DefaultMinTextLength,
              RemoveUnlikelyCandidates |-> ruc,
              WeightClasses |-> wc,
              CleanConditionally |-> cc,
              RemoveEmptyNodes |-> TRUE,
              DescriptionAsPlainText |-> TRUE,
              MinImageWidth |-> DefaultMinImageWidth,
              MinImageHeight |-> DefaultMinImageHeight,
              MaxImageCount |-> DefaultMaxImageCount,
              CheckImageLoopCount |-> DefaultCheckImageLoopCount,
              IgnoreImageFormat |-> IgnoreImageFormat] :
             ruc \in BOOLEAN, wc \in BOOLEAN, cc \in BOOLEAN }

\* A nil *Content.
NilContent == [nil |-> TRUE]

NotReturned == [content |-> NilContent, err |-> "none"]

\* No function is called on its own.
NoCall == [fn |-> "none", done |-> FALSE]

Init ==
    /\ nodes \in Docs
    /\ det = {}
    /\ tag = OrigTags(nodes)
    /\ opt0 \in Options
    /\ opt = opt0
    /\ pc = "description"
    /\ worker = NoWorker
    /\ cands = << >>
    /\ passes = << >>
    /\ desc = [kind |-> "none", len |-> 0]
    /\ reqURL = ReqURL
    /\ imgSel = << >>
    /\ wi = 1
    /\ loopCnt = 0
    /\ gor = << >>
    /\ imgs = << >>
    /\ ret = NotReturned
    /\ call = NoCall

(***************************************************************************)
(* description and prepareCandidates.                                      *)
(***************************************************************************)
Flags(o) == [RemoveUnlikelyCandidates |-> o.RemoveUnlikelyCandidates,
             WeightClasses |-> o.WeightClasses,
             CleanConditionally |-> o.CleanConditionally]

\* go func() of a budgeted step: sel := doc.Find("*").  det0 and tag0 keep
\* the document as it is when the step starts.
Spawn(kind, D) ==
    [kind |-> kind, sel |-> FindAll(D, 0), i |-> 1, quit |-> FALSE, st |-> "run",
     det0 |-> D.det, tag0 |-> D.tag]

\* The outcome of the running description call, noted in its record: how
\* it ended, the step that timed out if one did, and len(cleanedArticle).
Close(out, step, len) ==
    [passes EXCEPT ![Len(passes)] = [@ EXCEPT !.out = out, !.step = step, !.len = len]]

\* description is entered: prepareCandidates removes style and script and
\* starts the first budgeted step.
EnterDescription ==
    /\ pc = "description"
    /\ LET D == removeStyleScript(Doc)
       IN  /\ det' = D.det
           /\ passes' = Append(passes, [flags |-> Flags(opt), det |-> det, tag |-> tag,
                                        out |-> "running", step |-> "", len |-> 0])
           /\ IF opt.RemoveUnlikelyCandidates
              THEN worker' = Spawn("removeUnlikelyCandidates", D) /\ pc' = "removeUnlikelyCandidates"
              ELSE worker' = Spawn("transformMisusedDivsIntoP", D) /\ pc' = "transformMisusedDivsIntoP"
    /\ UNCHANGED << call, nodes, tag, opt0, opt, cands, desc, reqURL, imgVars, ret >>

\* One round of the worker's EachWithBreak.  The worker reads quit without
\* synchronisation: once the caller has set it, a round may see it and stop,
\* or not see it (or be past the check already) and go on.  Seen by the
\* check before the loop, quit makes the worker return; seen by the check
\* in the callback, it ends the loop and the worker goes to its send.
WorkerStep ==
    /\ worker.st = "run"
    /\ worker.kind \in {"removeUnlikelyCandidates", "transformMisusedDivsIntoP"}
    /\ \/ /\ worker.quit
          /\ worker.i = 1
          /\ worker' = [worker EXCEPT !.st = "exit"]
          /\ UNCHANGED << det, tag >>
       \/ /\ worker.quit
          /\ worker' = [worker EXCEPT !.st = "send"]
          /\ UNCHANGED << det, tag >>
       \/ /\ worker.i <= Len(worker.sel)
          /\ LET after == Round(worker.kind, Doc, worker.sel[worker.i])
             IN  det' = after.det /\ tag' = after.tag
          /\ worker' = [worker EXCEPT !.i = @ + 1]
       \/ /\ worker.i > Len(worker.sel)
          /\ worker' = [worker EXCEPT !.st = "send"]
          /\ UNCHANGED << det, tag >>
    /\ UNCHANGED << call, nodes, opt0, opt, pc, descVars, reqURL, imgVars, ret >>

\* The worker of getCandidates builds the map and goes to send it.
ScoreStep ==
    /\ worker.st = "run"
    /\ worker.kind = "getCandidates"
    /\ cands' = getCandidates(Doc, opt)
    /\ worker' = [worker EXCEPT !.st = "send"]
    /\ UNCHANGED << call, nodes, det, tag, opt0, opt, pc, passes, desc, reqURL, imgVars, ret >>

\* case err := <-ch of a budgeted step: the worker's send meets the caller's
\* receive, and prepareCandidates goes on to the next step.
StepDone ==
    /\ pc \in {"removeUnlikelyCandidates", "transformMisusedDivsIntoP", "getCandidates"}
    /\ worker.kind = pc
    /\ worker.st = "send"
    /\ ~worker.quit
    /\ IF pc = "removeUnlikelyCandidates"
       THEN worker' = Spawn("transformMisusedDivsIntoP", Doc) /\ pc' = "transformMisusedDivsIntoP"
       ELSE IF pc = "transformMisusedDivsIntoP"
       THEN worker' = Spawn("getCandidates", Doc) /\ pc' = "getCandidates"
       ELSE worker' = NoWorker /\ pc' = "getArticle"
    /\ UNCHANGED << call, nodes, det, tag, opt0, opt, descVars, reqURL, imgVars, ret >>

\* Mutant of StepTimeout: the timeout is taken for a text that is too short,
\* and description goes on to a relaxed pass.
StepTimeoutRelaxes ==
    /\ pc \in {"removeUnlikelyCandidates", "transformMisusedDivsIntoP", "getCandidates"}
    /\ worker' = [worker EXCEPT !.quit = TRUE]
    /\ passes' = [passes EXCEPT ![Len(passes)] = [@ EXCEPT !.out = "timeout", !.step = pc]]
    /\ IF opt.RemoveUnlikelyCandidates
       THEN /\ opt' = [opt EXCEPT !.RemoveUnlikelyCandidates = FALSE]
            /\ pc' = "description"
            /\ desc' = desc
       ELSE /\ opt' = opt
            /\ pc' = "images"
            /\ desc' = [kind |-> "error", len |-> 0]
    /\ UNCHANGED << call, nodes, det, tag, opt0, cands, reqURL, imgVars, ret >>

\* case <-timeout of a budgeted step: quit is set, the step returns its
\* timeout error, prepareCandidates returns it and description returns "".
StepTimeout ==
    /\ pc \in {"removeUnlikelyCandidates", "transformMisusedDivsIntoP", "getCandidates"}
    /\ worker' = [worker EXCEPT !.quit = TRUE]
    /\ passes' = Close("timeout", pc, 0)
    /\ desc' = [kind |-> "error", len |-> 0]
    /\ pc' = "images"
    /\ opt' = opt
    /\ UNCHANGED << call, nodes, det, tag, opt0, cands, reqURL, imgVars, ret >>

\* Mutants of Relaxed: one that re-enables the flags it relaxed earlier, one
\* that relaxes WeightClasses first, one that never relaxes
\* CleanConditionally.
RelaxedReenabling(o) ==
    IF o.RemoveUnlikelyCandidates THEN [o EXCEPT !.RemoveUnlikelyCandidates = FALSE]
    ELSE IF o.WeightClasses
         THEN [o EXCEPT !.WeightClasses = FALSE, !.RemoveUnlikelyCandidates = TRUE]
    ELSE IF o.CleanConditionally
         THEN [o EXCEPT !.CleanConditionally = FALSE, !.WeightClasses = TRUE,
                        !.RemoveUnlikelyCandidates = TRUE]
    ELSE o

RelaxedWeightFirst(o) ==
    IF o.WeightClasses THEN [o EXCEPT !.WeightClasses = FALSE]
    ELSE IF o.RemoveUnlikelyCandidates THEN [o EXCEPT !.RemoveUnlikelyCandidates = FALSE]
    ELSE IF o.CleanConditionally THEN [o EXCEPT !.CleanConditionally = FALSE]
    ELSE o

RelaxedTwoFlags(o) ==
    IF o.RemoveUnlikelyCandidates THEN [o EXCEPT !.RemoveUnlikelyCandidates = FALSE]
    ELSE IF o.WeightClasses THEN [o EXCEPT !.WeightClasses = FALSE]
    ELSE o

\* The relaxation step of description: the options of the next call, or the
\* same options when nothing is left to relax.
Relaxed(o) ==
    IF o.RemoveUnlikelyCandidates THEN [o EXCEPT !.RemoveUnlikelyCandidates = FALSE]
    ELSE IF o.WeightClasses THEN [o EXCEPT !.WeightClasses = FALSE]
    ELSE IF o.CleanConditionally THEN [o EXCEPT !.CleanConditionally = FALSE]
    ELSE o

\* Mutant of FinishPass: a pass without candidates is followed by a relaxed
\* pass, like a pass whose text is too short.
FinishPassRelaxesOnEmpty ==
    /\ pc = "getArticle"
    /\ IF cands = << >>
       THEN /\ passes' = Close("empty", "", 0)
            /\ IF Relaxed(opt) # opt
               THEN desc' = desc /\ pc' = "description" /\ opt' = Relaxed(opt)
               ELSE desc' = [kind |-> "error", len |-> 0] /\ pc' = "images" /\ opt' = opt
       ELSE \E best \in sortCandidates(cands) :
               LET len == sanitize(Doc, getArticle(Doc, cands, best), cands, opt)
               IN  IF len < opt.RetryLength /\ Relaxed(opt) # opt
                   THEN /\ passes' = Close("retry", "", len)
                        /\ opt' = Relaxed(opt)
                        /\ pc' = "description"
                        /\ desc' = desc
                   ELSE /\ passes' = Close("accepted", "", len)
                        /\ desc' = [kind |-> "text", len |-> len]
                        /\ pc' = "images"
                        /\ opt' = opt
    /\ UNCHANGED << call, nodes, det, tag, opt0, worker, cands, reqURL, imgVars, ret >>

\* description after prepareCandidates: getArticle, sanitize, and the
\* length test that accepts the text or calls description again.
FinishPass ==
    /\ pc = "getArticle"
    /\ IF cands = << >>
       THEN /\ passes' = Close("empty", "", 0)
            /\ desc' = [kind |-> "error", len |-> 0]
            /\ pc' = "images"
            /\ opt' = opt
       ELSE \E best \in sortCandidates(cands) :
               LET len == sanitize(Doc, getArticle(Doc, cands, best), cands, opt)
               IN  IF len < opt.RetryLength /\ Relaxed(opt) # opt
                   THEN /\ passes' = Close("retry", "", len)
                        /\ opt' = Relaxed(opt)
                        /\ pc' = "description"
                        /\ desc' = desc
                   ELSE /\ passes' = Close("accepted", "", len)
                        /\ desc' = [kind |-> "text", len |-> len]
                        /\ pc' = "images"
                        /\ opt' = opt
    /\ UNCHANGED << call, nodes, det, tag, opt0, worker, cands, reqURL, imgVars, ret >>

(***************************************************************************)
(* images and checkImageSize.                                              *)
(***************************************************************************)
\* uint32(g) for a Go int g, as its two 16-bit halves.
uint32(g) == [hi |-> g.q % 65536, lo |-> g.r]

\* a >= b on uint32
GeU(a, b) == a.hi > b.hi \/ (a.hi = b.hi /\ a.lo >= b.lo)

NoSize == [nil |-> TRUE, Width |-> uint32(GoInt(0)), Height |-> uint32(GoInt(0))]

Size(w, h) == [nil |-> FALSE, Width |-> uint32(w), Height |-> uint32(h)]

Idle == [st |-> "none", src |-> << >>, w |-> GoInt(0), h |-> GoInt(0), tmp |-> 0, probed |-> FALSE,
         res |-> [URL |-> << >>, Size |-> NoSize]]

\* What fastimage.DetectImageTypeWithTimeout2 may answer: an error, the size
\* of the image behind the URL, or no size, which leaves width and height as
\* the attributes gave them.
ProbeSizes == { [w |-> GoInt(300), h |-> GoInt(300)], [w |-> GoInt(50), h |-> GoInt(50)] }

\* result.Size != nil && Width >= MinImageWidth && Height >= MinImageHeight
Acceptable(res, o) ==
    /\ ~res.Size.nil
    /\ GeU(res.Size.Width, uint32(GoInt(o.MinImageWidth)))
    /\ GeU(res.Size.Height, uint32(GoInt(o.MinImageHeight)))

\* Mutant of ExtractFromDocument: the error of description is passed on to
\* the caller.
ExtractFromDocumentFailing(description, images) ==
    IF description.kind = "error"
    THEN [content |-> NilContent, err |-> "description failed"]
    ELSE [content |-> [Description |-> description, Images |-> images], err |-> "nil"]

\* ExtractFromDocument's return value.
ExtractFromDocument(description, images) ==
    [content |-> [Description |-> description, Images |-> images], err |-> "nil"]

\* images is entered: doc.Find("img") selects the img elements that are in
\* the document now.
EnterImages ==
    /\ pc = "images"
    /\ imgSel' = Find(Doc, 0, {"img"})
    /\ gor' = [k \in 1..Len(imgSel') |-> Idle]
    /\ wi' = 1
    /\ loopCnt' = 0
    /\ imgs' = << >>
    /\ pc' = "walk"
    /\ UNCHANGED << call, nodes, det, tag, opt0, opt, worker, descVars, reqURL, ret >>

\* One round of the EachWithBreak of images, or its end.
WalkStep ==
    /\ pc = "walk"
    /\ IF wi > Len(imgSel) \/ loopCnt >= opt0.CheckImageLoopCount
       THEN pc' = "collect" /\ UNCHANGED << wi, gor >>
       ELSE LET s == imgSel[wi]
                r == absPath(nodes[s].src, reqURL)
            IN  /\ pc' = pc
                /\ wi' = wi + 1
                /\ gor' = IF r.err \/ ~isSupportedImage(r.out, opt0) THEN gor
                          ELSE [gor EXCEPT ![wi] = [Idle EXCEPT !.st = "start", !.src = r.out,
                                                    !.w = Atoi(nodes[s].w), !.h = Atoi(nodes[s].h)]]
    /\ UNCHANGED << call, nodes, det, tag, opt0, opt, worker, descVars, reqURL,
                    imgSel, loopCnt, imgs, ret >>

\* Mutant of GoStart: every image is probed, whatever its attributes.
GoStartProbesAll(k) ==
    /\ gor[k].st = "start"
    /\ gor' = [gor EXCEPT ![k] = [@ EXCEPT !.st = "read", !.tmp = loopCnt]]
    /\ UNCHANGED << call, nodes, det, tag, opt0, opt, pc, worker, descVars, reqURL,
                    imgSel, wi, loopCnt, imgs, ret >>

\* checkImageSize is entered: with both attributes non-zero the image is
\* sized from them, otherwise *loopCnt++ begins with its read.
GoStart(k) ==
    /\ gor[k].st = "start"
    /\ gor' = [gor EXCEPT ![k] =
                 IF IsZero(gor[k].w) \/ IsZero(gor[k].h)
                 THEN [@ EXCEPT !.st = "read", !.tmp = loopCnt]
                 ELSE [@ EXCEPT !.st = "ready",
                                !.res = [URL |-> gor[k].src,
                                          Size |-> Size(gor[k].w, gor[k].h)]]]
    /\ UNCHANGED << call, nodes, det, tag, opt0, opt, pc, worker, descVars, reqURL,
                    imgSel, wi, loopCnt, imgs, ret >>

\* *loopCnt++ ends with its write, and the probe is on its way.
GoInc(k) ==
    /\ gor[k].st = "read"
    /\ loopCnt' = gor[k].tmp + 1
    /\ gor' = [gor EXCEPT ![k] = [@ EXCEPT !.st = "probe", !.probed = TRUE]]
    /\ UNCHANGED << call, nodes, det, tag, opt0, opt, pc, worker, descVars, reqURL,
                    imgSel, wi, imgs, ret >>

\* The probe answers.
GoProbe(k) ==
    /\ gor[k].st = "probe"
    /\ \/ gor' = [gor EXCEPT ![k] = [@ EXCEPT !.st = "ready",
                                      !.res = [URL |-> << >>, Size |-> NoSize]]]
       \/ \E sz \in ProbeSizes \cup { [w |-> gor[k].w, h |-> gor[k].h] } :
            gor' = [gor EXCEPT ![k] = [@ EXCEPT !.st = "ready",
                                       !.res = [URL |-> gor[k].src,
                                                Size |-> Size(sz.w, sz.h)]]]
    /\ UNCHANGED << call, nodes, det, tag, opt0, opt, pc, worker, descVars, reqURL,
                    imgSel, wi, loopCnt, imgs, ret >>

\* The images after the collector has taken result.
Collected(result) ==
    IF Acceptable(result, opt0) THEN Append(imgs, result) ELSE imgs

\* ch <- result meets case result := <-ch: the collector appends the result
\* if it is acceptable, and returns once it has MaxImageCount images.
GoSend(k) ==
    /\ pc = "collect"
    /\ gor[k].st = "ready"
    /\ gor' = [gor EXCEPT ![k] = [@ EXCEPT !.st = "sent"]]
    /\ imgs' = Collected(gor[k].res)
    /\ IF Len(imgs') >= opt0.MaxImageCount
       THEN pc' = "done" /\ ret' = ExtractFromDocument(desc, imgs')
       ELSE pc' = pc /\ ret' = ret
    /\ UNCHANGED << call, nodes, det, tag, opt0, opt, worker, descVars, reqURL,
                    imgSel, wi, loopCnt >>

\* Mutant of CollectTimeout: the collector waits for the goroutines that are
\* still on their way.
CollectTimeoutWaits ==
    /\ pc = "collect"
    /\ \A k \in 1..Len(gor) : gor[k].st \notin {"start", "read", "probe"}
    /\ pc' = "done"
    /\ ret' = ExtractFromDocument(desc, imgs)
    /\ UNCHANGED << call, nodes, det, tag, opt0, opt, worker, descVars, reqURL, imgVars >>

\* case <-timeout of the collector: images returns what it has.
CollectTimeout ==
    /\ pc = "collect"
    /\ pc' = "done"
    /\ ret' = ExtractFromDocument(desc, imgs)
    /\ UNCHANGED << call, nodes, det, tag, opt0, opt, worker, descVars, reqURL, imgVars >>

\* Mutant of GoPanic: ch is left open, and the goroutine stays at its send.
GoPanicBlocked(k) ==
    /\ pc = "done"
    /\ gor[k].st = "ready"
    /\ UNCHANGED vars

\* images has returned and closed ch: a goroutine at its send panics, and
\* its deferred recover ends it.
GoPanic(k) ==
    /\ pc = "done"
    /\ gor[k].st = "ready"
    /\ gor' = [gor EXCEPT ![k] = [@ EXCEPT !.st = "recovered"]]
    /\ UNCHANGED << call, nodes, det, tag, opt0, opt, pc, worker, descVars, reqURL,
                    imgSel, wi, loopCnt, imgs, ret >>

Probe == \E k \in 1..Len(gor) : GoStart(k) \/ GoInc(k) \/ GoProbe(k)

Deliver == \E k \in 1..Len(gor) : GoSend(k)

Discard == \E k \in 1..Len(gor) : GoPanic(k)

Next ==
    \/ EnterDescription
    \/ WorkerStep
    \/ ScoreStep
    \/ StepDone
    \/ StepTimeout
    \/ FinishPass
    \/ EnterImages
    \/ WalkStep
    \/ Probe
    \/ Deliver
    \/ CollectTimeout
    \/ Discard

Spec == Init /\ [][Next]_vars

(***************************************************************************)
(* The image selector on its own: ExtractFromDocument on a document of img *)
(* elements only, from the point where description has returned.  With no  *)
(* p or td in the document the one description pass ended with "Empty      *)
(* candidates" and left the document as it was.                            *)
(***************************************************************************)
ImageOptions ==
    { [o EXCEPT !.MaxImageCount = m, !.CheckImageLoopCount = c] :
      o \in { x \in Options : x.RemoveUnlikelyCandidates /\ x.WeightClasses
                              /\ x.CleanConditionally },
      m \in {0, 1, DefaultMaxImageCount}, c \in {0, 1, DefaultCheckImageLoopCount} }

InitImages ==
    /\ nodes \in ImgDocs
    /\ det = {}
    /\ tag = OrigTags(nodes)
    /\ opt0 \in ImageOptions
    /\ opt = opt0
    /\ pc = "images"
    /\ worker = NoWorker
    /\ cands = << >>
    /\ passes = << [flags |-> Flags(opt0), det |-> {}, tag |-> OrigTags(nodes),
                    out |-> "empty", step |-> "", len |-> 0] >>
    /\ desc = [kind |-> "error", len |-> 0]
    /\ reqURL \in {ReqURL, ReqFTP}
    /\ imgSel = << >>
    /\ wi = 1
    /\ loopCnt = 0
    /\ gor = << >>
    /\ imgs = << >>
    /\ ret = NotReturned
    /\ call = NoCall

NextImages ==
    \/ EnterImages
    \/ WalkStep
    \/ Probe
    \/ Deliver
    \/ CollectTimeout
    \/ Discard

SpecImages == InitImages /\ [][NextImages]_vars

\* The Go scheduler runs every goroutine that can run: a probe goroutine goes
\* on through checkImageSize (the probe itself is bounded by
\* ImageRequestTimeout), and a sender on the closed channel panics.
SpecImagesFair == SpecImages /\ WF_vars(Probe) /\ WF_vars(Discard)

(***************************************************************************)
(* images on a document with one img, over the values its width and height *)
(* attributes can have: absent, not an integer, 0, integers on both sides  *)
(* of the minimum, a negative one, and two beyond 32 bits (2^32 + 300 and  *)
(* 2^32 + 1).                                                              *)
(***************************************************************************)
DeclaredAttrs ==
    { AttrAbsent, AttrText, AttrInt(GoInt(0)), AttrInt(GoInt(300)), AttrInt(GoInt(50)),
      AttrInt(GoInt(-1)), AttrInt(Wide(65536, 300)), AttrInt(Wide(65536, 1)) }

DeclaredDocs ==
    { << El("html", 0, "", 0, 0), El("body", 1, "", 0, 0), Img(2, src, w, h) >> :
      src \in {SrcAbs, SrcSvg}, w \in DeclaredAttrs, h \in DeclaredAttrs }

InitDeclared ==
    /\ nodes \in DeclaredDocs
    /\ det = {}
    /\ tag = OrigTags(nodes)
    /\ opt0 \in { o \in Options : o.RemoveUnlikelyCandidates /\ o.WeightClasses
                                   /\ o.CleanConditionally }
    /\ opt = opt0
    /\ pc = "images"
    /\ worker = NoWorker
    /\ cands = << >>
    /\ passes = << [flags |-> Flags(opt0), det |-> {}, tag |-> OrigTags(nodes),
                    out |-> "empty", step |-> "", len |-> 0] >>
    /\ desc = [kind |-> "error", len |-> 0]
    /\ reqURL = ReqURL
    /\ imgSel = << >>
    /\ wi = 1
    /\ loopCnt = 0
    /\ gor = << >>
    /\ imgs = << >>
    /\ ret = NotReturned
    /\ call = NoCall

SpecDeclared == InitDeclared /\ [][NextImages]_vars

(***************************************************************************)
(* author.  The document is the sequence, in document order, of the        *)
(* elements the three selections of author can hold: meta elements with    *)
(* their name and content attributes, span.author elements and a elements  *)
(* with their rel attribute and text.                                      *)
(***************************************************************************)
NoAttr == [found |-> FALSE, val |-> << >>]

Attr(v) == [found |-> TRUE, val |-> v]

MetaEl(name, content) == [tag |-> "meta", name |-> name, content |-> content]

SpanAuthorEl(text) == [tag |-> "span", text |-> text]

AEl(rel, text) == [tag |-> "a", rel |-> rel, text |-> text]

\* doc.Find(tag): the positions of the elements, in document order.
FindTag(doc, t) == { i \in 1..Len(doc) : doc[i].tag = t }

\* EachWithBreak: the first position of sel among those where the callback
\* returns false, 0 when it never does.
BreakAt(sel, stops) ==
    IF sel \cap stops # {}
    THEN CHOOSE i \in sel \cap stops : \A j \in sel \cap stops : i <= j
    ELSE 0

\* author(doc)
author(doc) ==
    LET metas == FindTag(doc, "meta")
        named == { i \in metas :
                     doc[i].name \in {"dc.creator", "author"} /\ doc[i].content.found }
        m == BreakAt(metas, named)
        fromMeta == IF m = 0 THEN << >> ELSE doc[m].content.val
        spans == FindTag(doc, "span")
        sp == BreakAt(spans, { i \in spans : doc[i].text # << >> })
        fromSpan == IF sp = 0 THEN << >> ELSE TrimSpace(doc[sp].text)
        as == FindTag(doc, "a")
        a == BreakAt(as, { i \in as : doc[i].rel = "author" })
    IN  IF fromMeta # << >> THEN fromMeta
        ELSE IF fromSpan # << >> THEN fromSpan
        ELSE IF a = 0 THEN << >> ELSE TrimSpace(doc[a].text)

(***************************************************************************)
(* The functions called on their own, each on arguments of its own.        *)
(***************************************************************************)
\* <html><body><div class="article-body"> <p>a</p> <p>b</p> </div>
\* <div class="sidebar"> <p>c</p> </div> <div> <p>d</p> </div></body></html>
\* with a, b, c, d texts [len, commas]: the second and the third div have
\* the same inner markup when c = d.
CandDoc(a, b, c, d) ==
    << El("html", 0, "", 0, 0), El("body", 1, "", 0, 0),
       El("div", 2, "article-body", 0, 0),
       El("p", 3, "", a.len, a.commas), El("p", 3, "", b.len, b.commas),
       El("div", 2, "sidebar", 0, 0), El("p", 6, "", c.len, c.commas),
       El("div", 2, "", 0, 0), El("p", 8, "", d.len, d.commas) >>

CandTexts ==
    { [len |-> 10, commas |-> 0], [len |-> 30, commas |-> 0],
      [len |-> 30, commas |-> 2], [len |-> 300, commas |-> 3] }

GetCandidatesCalls ==
    { [fn |-> "getCandidates", done |-> FALSE, doc |-> CandDoc(a, b, c, d)] :
      a \in CandTexts, b \in CandTexts, c \in CandTexts, d \in CandTexts }

\* The siblings of the article in the documents getArticle is called on: a
\* second article of a lower score, a sidebar, a long p, a long p that is
\* mostly link, a short p with and without a period, a short div and a
\* short ul with a period.
SiblingNames ==
    {"second", "sidebar", "short", "longp", "linkp", "dotp", "plainp", "dotdiv", "dotul"}

GetArticleCalls ==
    { [fn |-> "getArticle", done |-> FALSE, doc |-> BuildDoc(bs)] :
      bs \in { << x, "article", y >> : x \in SiblingNames, y \in SiblingNames } }

\* <html><body><X class=c> text kids </X></body></html> for X one of table,
\* ul, div; the kids are none, one img, two imgs, or a p of 30 characters.
CleanKids(k) ==
    CASE k = "none" -> << >>
      [] k = "img"  -> << Img(3, SrcAbs, AttrAbsent, AttrAbsent) >>
      [] k = "imgs" -> << Img(3, SrcAbs, AttrAbsent, AttrAbsent),
                          Img(3, SrcRel, AttrAbsent, AttrAbsent) >>
      [] k = "p"    -> << El("p", 3, "", 30, 0) >>

CleanDoc(t, c, text, k) ==
    << El("html", 0, "", 0, 0), El("body", 1, "", 0, 0),
       El(t, 2, c, text.len, text.commas) >> \o CleanKids(k)

CleanCalls ==
    { [fn |-> "cleanConditionally", done |-> FALSE, doc |-> CleanDoc(t, c, text, k)] :
      t \in {"table", "ul", "div"}, c \in {"", "sidebar", "article-body"},
      text \in { [len |-> 10, commas |-> 0], [len |-> 20, commas |-> 12],
                 [len |-> 300, commas |-> 3], [len |-> 300, commas |-> 12] },
      k \in {"none", "img", "imgs", "p"} }

\* The elements of the documents author is called on.
AuthorEls ==
    { MetaEl("dc.creator", Attr(<< "F" >>)), MetaEl("author", Attr(<< "p" >>)),
      MetaEl("dc.creator", Attr(<< >>)), MetaEl("author", NoAttr),
      SpanAuthorEl(<< " ", "J", " " >>), SpanAuthorEl(<< " " >>),
      AEl("author", << "D", " " >>), AEl("", << "x" >>) }

RECURSIVE AuthorDocs(_)
AuthorDocs(n) ==
    IF n = 0 THEN { << >> }
    ELSE AuthorDocs(n - 1) \cup
         { Append(d, e) : d \in { t \in AuthorDocs(n - 1) : Len(t) = n - 1 }, e \in AuthorEls }

AuthorCalls == { [fn |-> "author", done |-> FALSE, doc |-> d] : d \in AuthorDocs(MaxAuthorEls) }

\* <html><body><div> t <a> l </a><p> u <a> m </a></p></div></body></html>
\* with texts of the given lengths.
LinkDoc(t, l, u, m) ==
    << El("html", 0, "", 0, 0), El("body", 1, "", 0, 0), El("div", 2, "", t, 0),
       El("a", 3, "", l, 0), El("p", 3, "", u, 0), El("a", 5, "", m, 0) >>

LinkDocs == { LinkDoc(t, l, u, m) : t \in {0, 30}, l \in {0, 10}, u \in {0, 30}, m \in {0, 10} }

LinkDensityCalls ==
    { [fn |-> "linkDensity", done |-> FALSE, doc |-> d, node |-> i] :
      d \in LinkDocs, i \in 3..6 }

ClassNames == {"", "article-body", "sidebar", "post-meta", "nav"}

\* <div class=c id=i>
ClassDoc(c, i) == << [El("div", 0, c, 0, 0) EXCEPT !.id = i] >>

ClassWeightCalls ==
    { [fn |-> "classWeight", done |-> FALSE, doc |-> ClassDoc(c, i), node |-> 1,
       WeightClasses |-> wc] :
      c \in ClassNames, i \in ClassNames, wc \in BOOLEAN }

\* The inputs of absPath: empty, blank, with a scheme, protocol-relative,
\* rooted, relative, relative with "..", and three that url.Parse rejects
\* (missing scheme, colon in the first path segment, bad escape).
AbsPathInputs ==
    { << >>, << " " >>, << "h", "t", "t", "p", ":", "/", "/", "b", "/", "i" >>, << "/", "/", "b", "/", "i" >>,
      << "/", "i" >>, << "i" >>, << ".", ".", "/", "i" >>,
      << ":", "b" >>, << "1", ":", "b" >>, << "%", "z" >> }

\* The request URLs: without a path (http and https), with one, with
\* scheme ftp, without a scheme, rejected by url.Parse, and without a path
\* but with a "/" in the query.
AbsPathRequests ==
    { << "h", "t", "t", "p", ":", "/", "/", "a" >>, << "h", "t", "t", "p", "s", ":", "/", "/", "a" >>, ReqURL,
      << "h", "t", "t", "p", "s", ":", "/", "/", "a", "/" >>, ReqFTP, << "a", "/", "x" >>, << ":", "a" >>,
      << "h", "t", "t", "p", ":", "/", "/", "a", "?", "u", "=", "/", "x" >> }

AbsPathCalls ==
    { [fn |-> "absPath", done |-> FALSE, twice |-> FALSE, in |-> i, req |-> r] :
      i \in AbsPathInputs, r \in AbsPathRequests }

\* The document of a call, as parsed.
CallDoc == Tree(call.doc, {}, OrigTags(call.doc))

CallLinkDensity ==
    /\ call.fn = "linkDensity"
    /\ ~call.done
    /\ call' = [fn |-> call.fn, done |-> TRUE, doc |-> call.doc, node |-> call.node,
                out |-> linkDensity(CallDoc, call.node)]
    /\ UNCHANGED << nodes, det, tag, opt0, opt, pc, worker, descVars, reqURL, imgVars, ret >>

CallClassWeight ==
    /\ call.fn = "classWeight"
    /\ ~call.done
    /\ call' = [fn |-> call.fn, done |-> TRUE, doc |-> call.doc, node |-> call.node,
                WeightClasses |-> call.WeightClasses,
                out |-> classWeight(CallDoc, call.node,
                                    [opt0 EXCEPT !.WeightClasses = call.WeightClasses])]
    /\ UNCHANGED << nodes, det, tag, opt0, opt, pc, worker, descVars, reqURL, imgVars, ret >>

\* out, err := absPath(in, req)
CallAbsPath ==
    /\ call.fn = "absPath"
    /\ ~call.done
    /\ call' = [fn |-> call.fn, done |-> TRUE, twice |-> FALSE, in |-> call.in,
                req |-> call.req, out |-> absPath(call.in, call.req)]
    /\ UNCHANGED << nodes, det, tag, opt0, opt, pc, worker, descVars, reqURL, imgVars, ret >>

\* again, err := absPath(out, req), for an out that was resolved
CallAbsPathAgain ==
    /\ call.fn = "absPath"
    /\ call.done
    /\ ~call.twice
    /\ ~call.out.err
    /\ call' = [fn |-> call.fn, done |-> TRUE, twice |-> TRUE, in |-> call.in,
                req |-> call.req, out |-> call.out,
                again |-> absPath(call.out.out, call.req)]
    /\ UNCHANGED << nodes, det, tag, opt0, opt, pc, worker, descVars, reqURL, imgVars, ret >>

\* Author: author(doc)
CallAuthor ==
    /\ call.fn = "author"
    /\ ~call.done
    /\ call' = [fn |-> call.fn, done |-> TRUE, doc |-> call.doc, out |-> author(call.doc)]
    /\ UNCHANGED << nodes, det, tag, opt0, opt, pc, worker, descVars, reqURL, imgVars, ret >>

\* The worker of getCandidates, run to its send.
CallGetCandidates ==
    /\ call.fn = "getCandidates"
    /\ ~call.done
    /\ call' = [fn |-> call.fn, done |-> TRUE, doc |-> call.doc,
                out |-> getCandidates(CallDoc, opt0)]
    /\ UNCHANGED << nodes, det, tag, opt0, opt, pc, worker, descVars, reqURL, imgVars, ret >>

\* getArticle on the candidates of the document: List[0] is any entry
\* sortCandidates may put first.
CallGetArticle ==
    /\ call.fn = "getArticle"
    /\ ~call.done
    /\ LET cMap == getCandidates(CallDoc, opt0)
       IN  \E best \in sortCandidates(cMap) :
               call' = [fn |-> call.fn, done |-> TRUE, doc |-> call.doc, cMap |-> cMap,
                        best |-> best, out |-> getArticle(CallDoc, cMap, best)]
    /\ UNCHANGED << nodes, det, tag, opt0, opt, pc, worker, descVars, reqURL, imgVars, ret >>

\* cleanConditionally(doc, candidates, "table, ul, div", opt) on the
\* subtree of node 3, with the candidates of the document: the nodes it
\* removes.
CallCleanConditionally ==
    /\ call.fn = "cleanConditionally"
    /\ ~call.done
    /\ LET cMap == getCandidates(CallDoc, opt0)
       IN  call' = [fn |-> call.fn, done |-> TRUE, doc |-> call.doc, cMap |-> cMap,
                    out |-> cleanConditionally(CallDoc, << 3 >>, {}, cMap, opt0)]
    /\ UNCHANGED << nodes, det, tag, opt0, opt, pc, worker, descVars, reqURL, imgVars, ret >>

InitCalls ==
    /\ call \in LinkDensityCalls \cup ClassWeightCalls \cup AbsPathCalls \cup AuthorCalls
                \cup GetCandidatesCalls \cup GetArticleCalls \cup CleanCalls
    /\ nodes = << >>
    /\ det = {}
    /\ tag = << >>
    /\ opt0 \in { o \in Options : o.RemoveUnlikelyCandidates /\ o.WeightClasses
                                   /\ o.CleanConditionally }
    /\ opt = opt0
    /\ pc = "call"
    /\ worker = NoWorker
    /\ cands = << >>
    /\ passes = << >>
    /\ desc = [kind |-> "none", len |-> 0]
    /\ reqURL = << >>
    /\ imgSel = << >>
    /\ wi = 1
    /\ loopCnt = 0
    /\ gor = << >>
    /\ imgs = << >>
    /\ ret = NotReturned

NextCalls ==
    \/ CallLinkDensity
    \/ CallClassWeight
    \/ CallAbsPath
    \/ CallAbsPathAgain
    \/ CallAuthor
    \/ CallGetCandidates
    \/ CallGetArticle
    \/ CallCleanConditionally

SpecCalls == InitCalls /\ [][NextCalls]_vars

(***************************************************************************)
(* The claims.                                                             *)
(***************************************************************************)
Original == Tree(nodes, {}, OrigTags(nodes))

EnabledFlags(o) ==
    (IF o.RemoveUnlikelyCandidates THEN 1 ELSE 0)
    + (IF o.WeightClasses THEN 1 ELSE 0)
    + (IF o.CleanConditionally THEN 1 ELSE 0)

AllEnabled(o) == o.RemoveUnlikelyCandidates /\ o.WeightClasses /\ o.CleanConditionally

\* The pass ended with a cleaned text (no timeout, candidates found).
HasText(p) == p.out \in {"retry", "accepted"}

\* C1: description runs at most 4 passes, the first plus at most one per flag
\* that was enabled in the caller's options, and no further pass is pending
\* once that many have run.
C1_AtMostFourPasses ==
    /\ Len(passes) <= 4
    /\ Len(passes) <= 1 + EnabledFlags(opt0)
    /\ pc = "description" => Len(passes) < 1 + EnabledFlags(opt0)

C1_Witness ==
    /\ Len(passes) = 4
    /\ desc.kind = "text"
    /\ pc = "done"

\* The flags of the k-th pass when the first pass has all three enabled.
RelaxationOrder ==
    << [RemoveUnlikelyCandidates |-> TRUE, WeightClasses |-> TRUE, CleanConditionally |-> TRUE],
       [RemoveUnlikelyCandidates |-> FALSE, WeightClasses |-> TRUE, CleanConditionally |-> TRUE],
       [RemoveUnlikelyCandidates |-> FALSE, WeightClasses |-> FALSE, CleanConditionally |-> TRUE],
       [RemoveUnlikelyCandidates |-> FALSE, WeightClasses |-> FALSE, CleanConditionally |-> FALSE] >>

\* C2: when the caller's options have all three flags enabled, the k-th pass
\* runs with RemoveUnlikelyCandidates, WeightClasses, CleanConditionally
\* disabled in this order, one more per pass and none re-enabled, and a pass
\* with a flag left whose cleaned text is shorter than RetryLength has a next
\* pass (running, or about to be entered).
C2_RelaxationOrder ==
    AllEnabled(opt0) =>
        \A k \in 1..Len(passes) :
            /\ k <= 4
            /\ passes[k].flags = RelaxationOrder[k]
            /\ (HasText(passes[k]) /\ passes[k].len < opt0.RetryLength /\ k < 4)
                  => (k < Len(passes) \/ pc = "description")

C2_Witness ==
    /\ AllEnabled(opt0)
    /\ Len(passes) = 2
    /\ HasText(passes[1])
    /\ passes[1].len < opt0.RetryLength
    /\ passes[2].out = "running"

\* C3: a pass whose cleaned text has length >= RetryLength is the last pass
\* and its text is what description returns; a returned text shorter than
\* RetryLength comes from a pass that ran with all three flags disabled.
C3_AcceptRule ==
    /\ \A k \in 1..Len(passes) :
          (HasText(passes[k]) /\ passes[k].len >= opt0.RetryLength)
             => /\ k = Len(passes)
                /\ pc # "description"
                /\ desc = [kind |-> "text", len |-> passes[k].len]
    /\ (desc.kind = "text" /\ desc.len < opt0.RetryLength)
          => /\ EnabledFlags(passes[Len(passes)].flags) = 0
             /\ desc.len = passes[Len(passes)].len

C3_Witness ==
    /\ desc.kind = "text"
    /\ desc.len < opt0.RetryLength
    /\ Len(passes) = 3
    /\ pc = "done"

WithFlags(o, f) ==
    [o EXCEPT !.RemoveUnlikelyCandidates = f.RemoveUnlikelyCandidates,
              !.WeightClasses = f.WeightClasses,
              !.CleanConditionally = f.CleanConditionally]

\* C4: every pass starts from the document as the caller passed it, and the
\* cleaned text of a pass is one that its options give when they are run
\* alone on that document.
C4_EveryPassFromOriginal ==
    \A k \in 1..Len(passes) :
        /\ passes[k].det = {}
        /\ passes[k].tag = OrigTags(nodes)
        /\ HasText(passes[k])
              => passes[k].len \in descriptionAlone(Original, WithFlags(opt0, passes[k].flags))

\* C5: ExtractFromDocument returns a Content and a nil error, whatever
\* happened on the way, and a description that ended with an error is the
\* empty string in the Content.
C5_NeverAnError ==
    pc = "done" =>
        /\ ret.err = "nil"
        /\ ret.content # NilContent
        /\ ret.content.Description = desc
        /\ passes[Len(passes)].out \in {"timeout", "empty"}
              => ret.content.Description = [kind |-> "error", len |-> 0]

\* A step timed out, an img could not be resolved and a probe failed.
C5_Witness ==
    /\ pc = "done"
    /\ passes[Len(passes)].out = "timeout"
    /\ \E k \in 1..Len(imgSel) : wi > k /\ absPath(nodes[imgSel[k]].src, reqURL).err
    /\ \E k \in 1..Len(gor) : gor[k].st = "sent" /\ gor[k].res.Size.nil

\* C6: a pass in which a budgeted step timed out is the last pass, the step
\* is one of the three, and description returns the empty string.
C6_TimeoutGivesEmpty ==
    \A k \in 1..Len(passes) :
        passes[k].out = "timeout"
           => /\ passes[k].step \in {"removeUnlikelyCandidates",
                                     "transformMisusedDivsIntoP", "getCandidates"}
              /\ k = Len(passes)
              /\ pc \notin {"description", "removeUnlikelyCandidates",
                            "transformMisusedDivsIntoP", "getCandidates", "getArticle"}
              /\ desc = [kind |-> "error", len |-> 0]

C6_Witness ==
    /\ Len(passes) = 3
    /\ passes[3].out = "timeout"
    /\ passes[3].step = "transformMisusedDivsIntoP"
    /\ pc = "done"

\* C7: after removeUnlikelyCandidates or transformMisusedDivsIntoP has timed
\* out the document is as it was when the step started.
C7_TimeoutAppliesNothing ==
    (worker.quit /\ worker.kind \in {"removeUnlikelyCandidates", "transformMisusedDivsIntoP"})
       => (det = worker.det0 /\ tag = worker.tag0)

\* C8: the img elements images walks are those of the document as the caller
\* passed it.
C8_WalkSeesOriginal ==
    pc \in {"walk", "collect", "done"} => imgSel = Find(Original, 0, {"img"})

\* C9: at most CheckImageLoopCount probes are started in one images call.
C9_ProbesBounded ==
    Cardinality({ k \in 1..Len(gor) : gor[k].probed }) <= opt0.CheckImageLoopCount

\* The results the collector has taken that pass the size test.
AcceptableDelivered ==
    { k \in 1..Len(gor) : gor[k].st = "sent" /\ Acceptable(gor[k].res, opt0) }

\* C10: images returns at most MaxImageCount images, and exactly
\* MaxImageCount when that many acceptable results were delivered.
C10_AtMostMaxImageCount ==
    pc = "done" =>
        /\ Len(ret.content.Images) <= opt0.MaxImageCount
        /\ Cardinality(AcceptableDelivered) >= opt0.MaxImageCount
              => Len(ret.content.Images) = opt0.MaxImageCount

\* The probe goroutines that have ended, or were never started.
Ended(k) == gor[k].st \in {"none", "sent", "recovered"}

\* C11: once images has returned, every probe goroutine still in flight
\* ends, its result discarded: none stays at its send for ever.
C11_GoroutinesEnd ==
    (pc = "done") ~> (\A k \in 1..Len(gor) : Ended(k))

C11_Witness ==
    /\ pc = "done"
    /\ \E k \in 1..Len(gor) : gor[k].st = "recovered"
    /\ \A k \in 1..Len(gor) : Ended(k)

\* No probe work is outstanding: every goroutine the walk started has
\* delivered its result.
NoneOutstanding == \A k \in 1..Len(gor) : gor[k].st \in {"none", "sent"}

\* C12: when no probe work is outstanding and fewer than MaxImageCount
\* images were accepted, images does not wait for its timer: the collector
\* never returns by case <-timeout from such a state.
C12_NoWaitWithoutWork ==
    [][~(/\ pc = "collect"
         /\ NoneOutstanding
         /\ Len(imgs) < opt0.MaxImageCount
         /\ CollectTimeout)]_vars

\* C13: while the collector waits its timer can fire, however many
\* goroutines have not delivered, and images then returns; the images it
\* returns are results the collector has taken.
C13_TimerEndsCollector ==
    /\ pc = "collect" => ENABLED CollectTimeout
    /\ pc = "done" =>
          \A i \in 1..Len(ret.content.Images) :
              \E k \in 1..Len(gor) : gor[k].st = "sent" /\ gor[k].res = ret.content.Images[i]

\* images has returned one image while a probe had not answered.
C13_Witness ==
    /\ pc = "done"
    /\ Len(ret.content.Images) = 1
    /\ \E k \in 1..Len(gor) : gor[k].st = "probe"
    /\ Len(ret.content.Images) < opt0.MaxImageCount

\* The img element whose goroutine is the k-th.
ImgOf(k) == nodes[imgSel[k]]

\* Both attributes are integers other than 0.
Declared(n) == ~IsZero(Atoi(n.w)) /\ ~IsZero(Atoi(n.h))

\* C14: every returned Image comes from an img whose width and height, as
\* declared by its attributes or else as probed, are at least MinImageWidth
\* and MinImageHeight, and its URL contains no IgnoreImageFormat substring;
\* so also for negative attribute values and for values beyond 32 bits.
C14_ReturnedImagesLargeEnough ==
    pc = "done" =>
        \A i \in 1..Len(ret.content.Images) :
            \E k \in 1..Len(gor) :
                /\ gor[k].st = "sent"
                /\ gor[k].res = ret.content.Images[i]
                /\ isSupportedImage(ret.content.Images[i].URL, opt0)
                /\ IF Declared(ImgOf(k))
                   THEN /\ GeInt(Atoi(ImgOf(k).w), GoInt(opt0.MinImageWidth))
                        /\ GeInt(Atoi(ImgOf(k).h), GoInt(opt0.MinImageHeight))
                   ELSE Acceptable(ret.content.Images[i], opt0)

\* C15: an img with both attributes integers other than 0 is sized from
\* them: its goroutine never reaches *loopCnt++ or the probe, and its result
\* has the attributes' values as uint32; loopCnt counts probed images only,
\* and a probed img has an attribute that is absent, 0 or not an integer.
C15_DeclaredNotProbed ==
    /\ \A k \in 1..Len(gor) :
          /\ Declared(ImgOf(k)) =>
                /\ ~gor[k].probed
                /\ gor[k].st \notin {"read", "probe"}
                /\ gor[k].st \in {"ready", "sent", "recovered"} =>
                      gor[k].res = [URL |-> gor[k].src,
                                    Size |-> Size(Atoi(ImgOf(k).w), Atoi(ImgOf(k).h))]
          /\ (gor[k].probed \/ gor[k].st \in {"read", "probe"}) =>
                \E a \in {ImgOf(k).w, ImgOf(k).h} :
                    a.kind \in {"absent", "text"} \/ IsZero(a.val)
    /\ loopCnt <= Cardinality({ k \in 1..Len(gor) : gor[k].probed })

\* An img with width 300 and height 2^32 + 300 has been returned, and
\* nothing was counted.
C15_Witness ==
    /\ pc = "done"
    /\ Len(ret.content.Images) = 1
    /\ loopCnt = 0
    /\ \E k \in 1..Len(gor) :
          /\ gor[k].st = "sent"
          /\ ImgOf(k).w = AttrInt(GoInt(300))
          /\ ImgOf(k).h = AttrInt(Wide(65536, 300))

\* C16: linkDensity of a node without text is 0; of any other node it is
\* the length of the text inside its descendant anchors divided by the
\* length of its text.
C16_LinkDensityNeverNaN ==
    (call.fn = "linkDensity" /\ call.done) =>
        LET as == Find(CallDoc, call.node, {"a"})
            linkLen == SumOver([k \in 1..Len(as) |-> TextLen(CallDoc, as[k])], 1..Len(as))
            textLen == TextLen(CallDoc, call.node)
        IN  /\ ~call.out.nan
            /\ call.out = IF textLen = 0 THEN Rat(0, 1) ELSE Rat(linkLen, textLen)

\* What one attribute adds to the weight.
Contribution(a) ==
    (IF Negative(a) THEN -25 ELSE 0) + (IF Positive(a) THEN 25 ELSE 0)

\* C17: classWeight is 0 with WeightClasses disabled, and otherwise the sum
\* over class and id of -25 for a NegativeClass match and +25 for a
\* PositiveClass match: one of -50, -25, 0, 25, 50, and +50 when class and id
\* both match PositiveClass only.
C17_ClassWeightAdditive ==
    (call.fn = "classWeight" /\ call.done) =>
        LET n == call.doc[call.node]
        IN  /\ call.out \in {-50, -25, 0, 25, 50}
            /\ ~call.WeightClasses => call.out = 0
            /\ call.WeightClasses => call.out = Contribution(n.class) + Contribution(n.id)
            /\ (/\ call.WeightClasses
                /\ Positive(n.class) /\ ~Negative(n.class)
                /\ Positive(n.id) /\ ~Negative(n.id)) => call.out = 50

C17_Witness ==
    /\ call.fn = "classWeight"
    /\ call.done
    /\ call.WeightClasses
    /\ call.doc[call.node].class = "article-body"
    /\ call.doc[call.node].id = "article-body"
    /\ call.out = 50

\* absPath has been called on its own and has returned.
AbsPathDone == call.fn = "absPath" /\ call.done

\* The input parses and has a scheme.
HasScheme(in) == ~IsBlank(in) /\ ~urlParse(in).err /\ urlParse(in).Scheme # << >>

\* C18: an input with a scheme is returned unchanged, and absPath applied
\* again, with the same request URL, to an output it resolved returns that
\* output unchanged.
C18_AbsPathIdempotent ==
    AbsPathDone =>
        /\ HasScheme(call.in) => call.out = Ok(call.in)
        /\ call.twice => call.again = Ok(call.out.out)

C18_Witness ==
    /\ AbsPathDone
    /\ call.twice
    /\ call.in = << "i" >>
    /\ call.req = ReqURL
    /\ call.again = call.out
    /\ call.out.out # call.in

\* The input parses and has no scheme: absPath resolves it against the
\* request URL.
Relative(in) == ~IsBlank(in) /\ ~urlParse(in).err /\ urlParse(in).Scheme = << >>

\* The request URL cut after its last "/".
CutAfterLastSlash(req) == SubSeq(req, 1, LastIndex(req, "/") + 1)

\* C19: with a request URL of scheme http or https, a protocol-relative
\* input is mapped to scheme ":" input, a rooted input to scheme "://" host
\* input, and any other relative input to the request URL cut after its last
\* "/" followed by the input, or to request URL "/" input when the request
\* URL has no path; the input is appended as it is (".." is kept).
C19_RelativeResolution ==
    (AbsPathDone /\ isValidURLStr(call.req) /\ Relative(call.in)) =>
        LET u == urlParse(call.req)
        IN  call.out =
              IF HasPrefix(call.in, << "/", "/" >>) THEN Ok(u.Scheme \o << ":" >> \o call.in)
              ELSE IF HasPrefix(call.in, << "/" >>)
                   THEN Ok(u.Scheme \o << ":", "/", "/" >> \o u.Host \o call.in)
              ELSE IF u.Path = << >> THEN Ok(call.req \o << "/" >> \o call.in)
              ELSE Ok(CutAfterLastSlash(call.req) \o call.in)

\* C19 restricted to request URLs that have no "/" after the host unless
\* they have a path.
C19_WithoutSlashInQuery ==
    (AbsPathDone /\ isValidURLStr(call.req) /\ Relative(call.in)
       /\ (urlParse(call.req).Path = << >> => LastIndex(call.req, "/") < 8)) =>
        LET u == urlParse(call.req)
        IN  call.out =
              IF HasPrefix(call.in, << "/", "/" >>) THEN Ok(u.Scheme \o << ":" >> \o call.in)
              ELSE IF HasPrefix(call.in, << "/" >>)
                   THEN Ok(u.Scheme \o << ":", "/", "/" >> \o u.Host \o call.in)
              ELSE IF u.Path = << >> THEN Ok(call.req \o << "/" >> \o call.in)
              ELSE Ok(CutAfterLastSlash(call.req) \o call.in)

\* C20 as stated: absPath fails whenever the input is empty, the input is
\* unparsable, or the scheme of the request URL is not http or https.
C20_FailsWhateverTheInput ==
    (AbsPathDone /\ (IsBlank(call.in) \/ urlParse(call.in).err \/ ~isValidURLStr(call.req))) =>
        call.out = Fail

\* C20: absPath fails, with an empty output, whenever the input is empty or
\* unparsable, and whenever the input has no scheme and the request URL is
\* unparsable or its scheme is not http or https.
C20_FailsOnBadInputOrRequest ==
    (AbsPathDone /\ (\/ IsBlank(call.in)
                     \/ urlParse(call.in).err
                     \/ (Relative(call.in) /\ ~isValidURLStr(call.req)))) =>
        call.out = Fail

C20_Witness ==
    /\ AbsPathDone
    /\ call.in = << "i" >>
    /\ call.req = ReqFTP
    /\ call.out = Fail

AuthorDone == call.fn = "author" /\ call.done

\* The values of one source of the author, in document order: the non-empty
\* contents of the metas of a name, the trimmed non-empty texts of the
\* span.author elements, the trimmed texts of the a[rel=author] elements.
MetaValues(doc, name) ==
    SelectSeq([i \in 1..Len(doc) |->
                  IF doc[i].tag = "meta" /\ doc[i].name = name /\ doc[i].content.found
                  THEN doc[i].content.val ELSE << >>],
              LAMBDA v : v # << >>)

SpanValues(doc) ==
    SelectSeq([i \in 1..Len(doc) |->
                  IF doc[i].tag = "span" THEN TrimSpace(doc[i].text) ELSE << >>],
              LAMBDA v : v # << >>)

RelValues(doc) ==
    SelectSeq([i \in 1..Len(doc) |->
                  IF doc[i].tag = "a" /\ doc[i].rel = "author"
                  THEN TrimSpace(doc[i].text) ELSE << >>],
              LAMBDA v : v # << >>)

\* The first available value in the priority order.
ByPriority(doc) ==
    LET all == MetaValues(doc, "dc.creator") \o MetaValues(doc, "author")
               \o SpanValues(doc) \o RelValues(doc)
    IN  IF all = << >> THEN << >> ELSE Head(all)

\* No element of the document holds an empty value: no content attribute
\* that is empty, no span.author and no a[rel=author] of white space.
NoEmptyValue(doc) ==
    \A i \in 1..Len(doc) :
        /\ (doc[i].tag = "meta" /\ doc[i].content.found) => doc[i].content.val # << >>
        /\ doc[i].tag = "span" => TrimSpace(doc[i].text) # << >>
        /\ (doc[i].tag = "a" /\ doc[i].rel = "author") => TrimSpace(doc[i].text) # << >>

\* C21: author returns the first available value in the order dc.creator
\* meta, author meta, span.author, a[rel=author], wherever these elements
\* stand in the document (stated for documents whose values are not empty).
C21_AuthorByPriority ==
    (AuthorDone /\ NoEmptyValue(call.doc)) => call.out = ByPriority(call.doc)

\* No author meta with a content stands before a dc.creator meta with a
\* content.
CreatorMetaFirst(doc) ==
    \A i, j \in 1..Len(doc) :
        (/\ i < j
         /\ doc[i].tag = "meta" /\ doc[i].name = "author" /\ doc[i].content.found
         /\ doc[j].tag = "meta" /\ doc[j].name = "dc.creator") => ~doc[j].content.found

\* C21 restricted to the documents of CreatorMetaFirst.
C21_WhenCreatorMetaFirst ==
    (AuthorDone /\ NoEmptyValue(call.doc) /\ CreatorMetaFirst(call.doc)) =>
        call.out = ByPriority(call.doc)

GetCandidatesDone == call.fn = "getCandidates" /\ call.done

\* The p and td of D with text of at least MinTextLength that have node as
\* parent or as grandparent.
Qualifying(D, node) ==
    { s \in 1..Len(D.n) :
        /\ D.tag[s] \in {"p", "td"}
        /\ TextLen(D, s) >= opt0.MinTextLength
        /\ (D.n[s].parent = node \/ D.n[D.n[s].parent].parent = node) }

\* 200 times 1 + the comma-separated segments + min(textLength/100, 3).
Increment200(D, s) ==
    200 * (1 + (Commas(D, s) + 1))
    + (IF 2 * TextLen(D, s) < 600 THEN 2 * TextLen(D, s) ELSE 600)

\* C22: the candidate map has one entry per inner-markup signature at most,
\* and the score of an entry before the rescaling is the one its first
\* qualifying p/td in document order gives: scoreNode + increment when the
\* entry's node is its parent, scoreNode + increment/2 when it is its
\* grandparent.
C22_FirstWriterSetsScore ==
    GetCandidatesDone =>
        /\ \A i, j \in 1..Len(call.out) : call.out[i].key = call.out[j].key => i = j
        /\ \A i \in 1..Len(call.out) :
              LET e == call.out[i]
                  q == Qualifying(CallDoc, e.node)
                  first == CHOOSE s \in q : \A t \in q : s <= t
              IN  /\ q # {}
                  /\ e.key = HTML(CallDoc, e.node)
                  /\ e.s200 = 200 * scoreNode(CallDoc, e.node, opt0)
                                + (IF CallDoc.n[first].parent = e.node
                                   THEN Increment200(CallDoc, first)
                                   ELSE Increment200(CallDoc, first) \div 2)

\* The first div has two qualifying p of different increments, and the
\* second and third div share one entry.
C22_Witness ==
    /\ GetCandidatesDone
    /\ Cardinality(Qualifying(CallDoc, 3)) = 2
    /\ Increment200(CallDoc, 4) # Increment200(CallDoc, 5)
    /\ \E i \in 1..Len(call.out) : call.out[i].node = 3
    /\ Qualifying(CallDoc, 6) # {}
    /\ Qualifying(CallDoc, 8) # {}
    /\ HTML(CallDoc, 6) = HTML(CallDoc, 8)
    /\ \E i \in 1..Len(call.out) : call.out[i].node = 6
    /\ ~\E i \in 1..Len(call.out) : call.out[i].node = 8

GetArticleDone == call.fn = "getArticle" /\ call.done

\* The best candidate has a score no entry exceeds.
BestIsMaximal ==
    \A k \in 1..Len(call.cMap) : ~Gt(call.cMap[k].Score, call.best.Score)

\* The direct children of the best candidate's parent.
Siblings == Kids(CallDoc, CallDoc.n[call.best.node].parent)

Copied(s) == \E k \in 1..Len(call.out) : call.out[k] = s

\* s is the best candidate (a candidate is its inner markup) or has a
\* candidate score of max(10, 0.2 * best score) at least.
BestOrScored(s) ==
    \/ HTML(CallDoc, s) = HTML(CallDoc, call.best.node)
    \/ Ge(MapScore(call.cMap, HTML(CallDoc, s)), siblingScoreThreshold(call.best))

LongText(s) == TextLen(CallDoc, s) > 80 /\ Lt(linkDensity(CallDoc, s), Rat(1, 4))

ShortSentence(s) ==
    /\ TextLen(CallDoc, s) < 80
    /\ linkDensity(CallDoc, s) = Rat(0, 1)
    /\ TextHasDot(CallDoc, s)

\* C23 as stated: a child of the best candidate's parent is copied exactly
\* when it is the best candidate, or its score reaches the threshold, or it
\* is a long p of low link density, or it is a short text without links
\* that has a period before a space or the end, whatever its tag.
C23_SiblingRuleAnyTag ==
    GetArticleDone =>
        /\ BestIsMaximal
        /\ \A s \in Siblings :
              Copied(s) <=> \/ BestOrScored(s)
                            \/ CallDoc.tag[s] = "p" /\ LongText(s)
                            \/ ShortSentence(s)

\* C23: as above, the short text with a period being copied only when it
\* is a p.
C23_SiblingRule ==
    GetArticleDone =>
        /\ BestIsMaximal
        /\ \A s \in Siblings :
              Copied(s) <=> \/ BestOrScored(s)
                            \/ CallDoc.tag[s] = "p" /\ (LongText(s) \/ ShortSentence(s))
        /\ \A k \in 1..Len(call.out) : call.out[k] \in Siblings

\* A short div with a period is left out beside a short p with a period
\* that is copied.
C23_Witness ==
    /\ GetArticleDone
    /\ \E s \in Siblings :
          CallDoc.tag[s] = "div" /\ ShortSentence(s) /\ ~BestOrScored(s) /\ ~Copied(s)
    /\ \E s \in Siblings :
          CallDoc.tag[s] = "p" /\ ShortSentence(s) /\ ~BestOrScored(s) /\ Copied(s)
    /\ Copied(call.best.node)

CleanDone == call.fn = "cleanConditionally" /\ call.done

\* Class weight + candidate score of node 3 is negative.
NegativeSum ==
    LET score == MapScore(call.cMap, HTML(CallDoc, 3))
    IN  Lt(Rat(score.num + classWeight(CallDoc, 3, opt0) * score.den, score.den), Rat(0, 1))

\* The descendant counts of node 3 once all six tags are counted: li less
\* 100, img less the imgs under noscript.
CompleteCounts ==
    [p     |-> Count(CallDoc, 3, "p"),
     img   |-> Count(CallDoc, 3, "img") - NoscriptImgs(CallDoc, 3),
     li    |-> Count(CallDoc, 3, "li") - 100,
     a     |-> Count(CallDoc, 3, "a"),
     embed |-> Count(CallDoc, 3, "embed"),
     input |-> Count(CallDoc, 3, "input")]

\* The removal rule applied to the complete counts.
ReasonOnCompleteCounts ==
    conditionalCleanReason(CallDoc.tag[3], CompleteCounts, TextLen(CallDoc, 3), opt0,
                           classWeight(CallDoc, 3, opt0), linkDensity(CallDoc, 3))

\* C24 as stated: a table, ul or div whose text has more than 10 commas is
\* not removed, whatever its class weight and candidate score.
C24_CommasAlwaysKeep == (CleanDone /\ Commas(CallDoc, 3) > 10) => 3 \notin call.out

\* C24: a table, ul or div whose text has more than 10 commas is removed
\* exactly when its class weight plus candidate score is negative; no
\* count, text length or link density removes it.
C24_CommasKeepUnlessNegative ==
    (CleanDone /\ Commas(CallDoc, 3) > 10) => (3 \in call.out <=> NegativeSum)

\* A div with more than 10 commas that the too-short rule would remove is
\* kept.
C24_Witness ==
    /\ CleanDone
    /\ Commas(CallDoc, 3) > 10
    /\ ~NegativeSum
    /\ ReasonOnCompleteCounts # ""
    /\ 3 \notin call.out

\* C25: removal is decided on the complete descendant counts: a node is
\* removed exactly when its sum is negative, or it has fewer than 11 commas
\* and a rule applies to the complete counts; so a short node with
\* exactly one img that no other rule removes is kept.
C25_DecidedOnCompleteCounts ==
    CleanDone =>
        (3 \in call.out <=>
            \/ NegativeSum
            \/ Commas(CallDoc, 3) < 11 /\ ReasonOnCompleteCounts # "")

\* C25 restricted to the nodes that are not short with exactly one img.
C25_ExceptShortWithOneImg ==
    (CleanDone /\ ~(TextLen(CallDoc, 3) < opt0.MinTextLength /\ CompleteCounts.img = 1)) =>
        (3 \in call.out <=>
            \/ NegativeSum
            \/ Commas(CallDoc, 3) < 11 /\ ReasonOnCompleteCounts # "")

C27_NoWorkerLeftAtSend == ~(worker.st = "send" /\ worker.quit)

\* A worker at its send after the timeout stays there: no step of the
\* program receives from the channel any more.
C27_LeftAtSendForever ==
    [][(worker.st = "send" /\ worker.quit) => worker' = worker]_vars

\* C28: once description has returned, no step writes to the document: no
\* element is removed and none is retagged while images runs or after it.
C28_NoWriterAfterDescription ==
    [][(pc \in {"images", "walk", "collect", "done"}) => (det' = det /\ tag' = tag)]_vars
====
